---- MODULE Spec2Model ----
(***************************************************************************)
(* Model of the tutorial scripts of agents-ia-langchain_asimov: the agent  *)
(* loops (12_agent_executor_e_memory.ts, 13_agent_types.ts,                *)
(* 14_agent_toolkits.ts), the single-pass chain of                         *)
(* 09_chatmodels_with_tools.ts, the two-step function calling of           *)
(* 03_adding_external_functions_openai.ts, the shared routeResponse        *)
(* dispatch, the network tools and the mock data tools.                    *)
(*                                                                         *)
(* Conventions.  A JavaScript string whose content is inspected with       *)
(* includes() is a sequence of tokens (words); includes() is a contiguous  *)
(* sub-sequence match.  Every other string is a TLA+ string.               *)
(* JSON.stringify and template strings are modelled with ToString and \o.  *)
(* A JavaScript value of a table cell is a record [t, n, s] carrying its   *)
(* typeof tag.  The arguments object of a tool call is a record            *)
(* [def, key, num, str]: def = FALSE is undefined, key = "" is {}.         *)
(***************************************************************************)
EXTENDS Integers, Sequences, FiniteSets, TLC

VARIABLES
  script,        \* which script's main() is running
  exIdx,         \* main: index of the example being run (1-based)
  mainState,     \* main: "running" | "done"
  pc,            \* position inside the running agent function
  agent,         \* the agent function of the current example
  input,         \* its input argument
  sessionId,     \* its sessionId argument (runAgent of 12)
  intermediateSteps, \* let intermediateSteps (sequence of [action, observation])
  chatHistory,   \* const chatHistory / let chatHistory of the run
  response,      \* the last response of chain.invoke
  modelInput,    \* the messages given to the model by the last chain.invoke
  toolState,     \* locals of the network tool called last in this run
  executed,      \* the tool calls executed so far by the current call
  outstanding,   \* number of external calls issued and not yet completed
  transcript,    \* FileSystemChatMessageHistory: sessionId -> stored messages
  returned,      \* the calls that returned so far: [agent, input, session, value]
  err,           \* the error main caught: [kind, message], kind "none" if none
  errorLog,      \* Logger.error calls so far, by the place that logged
  catches,       \* catch blocks entered so far, by place
  counters,      \* model invocations, tool-call responses and tool executions
                 \* of the current example; tool-call responses of the script
  mockTables,    \* tools/sql.ts mockTables
  mockData,      \* tools/dataframe mockData
  lastCall,      \* direct tool call: the tool and arguments last called
  lastOut,       \* direct tool call: what it returned or threw
  memo,          \* direct tool call: an earlier call and what it gave
  routed,        \* routeResponse called directly: response and outcome
  lookup,        \* temperature lookup called directly: input and outputs
  forecast       \* closest-hour search applied directly: input and outputs

vars == <<script, exIdx, mainState, pc, agent, input, sessionId,
          intermediateSteps, chatHistory, response, modelInput, toolState, executed,
          outstanding, transcript, returned, err, errorLog, catches, counters,
          mockTables, mockData, lastCall, lastOut, memo, routed, lookup,
          forecast>>

agentVars == <<script, exIdx, mainState, pc, agent, input, sessionId,
               intermediateSteps, chatHistory, response, modelInput, toolState, executed,
               outstanding, transcript, returned, err, errorLog, catches,
               counters>>

directVars == <<lastCall, lastOut, memo, lookup, forecast>>

dataVars == <<mockTables, mockData>>

-----------------------------------------------------------------------------
(* Bounds of the model *)

\* the model answers with a tool call at most this many times per script
MaxSteps == 2

\* runAgent is called directly at most this many times
MaxCalls == 2

-----------------------------------------------------------------------------
(* JavaScript values *)

Num(k) == [t |-> "number", n |-> k, s |-> ""]
Str(x) == [t |-> "string", n |-> 0, s |-> x]
Null == [t |-> "object", n |-> 0, s |-> "null"]

\* the arguments object of a tool call
Undef == [def |-> FALSE, key |-> "", num |-> 0, str |-> <<>>]
EmptyObj == [def |-> TRUE, key |-> "", num |-> 0, str |-> <<>>]
NumArg(k, v) == [def |-> TRUE, key |-> k, num |-> v, str |-> <<>>]
StrArg(k, v) == [def |-> TRUE, key |-> k, num |-> 0, str |-> v]

\* args.<k> is present
Has(args, k) == args.def /\ args.key = k

\* JSON.stringify
Stringify(v) == ToString(v)

\* String.prototype.toLowerCase, token by token
LowerTok(t) ==
  CASE t = "SELECT" -> "select"
    [] t = "FROM" -> "from"
    [] t = "COUNT" -> "count"
    [] t = "Select" -> "select"
    [] t = "From" -> "from"
    [] t = "Album" -> "album"
    [] t = "ALBUM" -> "album"
    [] t = "Artist" -> "artist"
    [] t = "ARTIST" -> "artist"
    [] t = "Sao" -> "sao"
    [] t = "SAO" -> "sao"
    [] t = "Paulo" -> "paulo"
    [] t = "PAULO" -> "paulo"
    [] t = "Porto" -> "porto"
    [] t = "Alegre" -> "alegre"
    [] OTHER -> t

toLowerCase(s) == [i \in 1..Len(s) |-> LowerTok(s[i])]

\* String.prototype.includes: sub occurs in s as a contiguous run
includes(s, sub) ==
  \E i \in 0..(Len(s) - Len(sub)) :
    \A j \in 1..Len(sub) : s[i + j] = sub[j]

\* Array.prototype.slice(0, n) for an integer n
slice0(a, n) ==
  LET e == IF n < 0 THEN (IF Len(a) + n < 0 THEN 0 ELSE Len(a) + n)
           ELSE (IF n > Len(a) THEN Len(a) ELSE n)
  IN SubSeq(a, 1, e)

RECURSIVE SumSeq(_)
SumSeq(s) == IF s = <<>> THEN 0 ELSE s[1] + SumSeq(Tail(s))

RECURSIVE MinSeq(_)
MinSeq(s) ==
  IF Len(s) = 1 THEN s[1]
  ELSE LET m == MinSeq(Tail(s)) IN IF s[1] < m THEN s[1] ELSE m

RECURSIVE MaxSeq(_)
MaxSeq(s) ==
  IF Len(s) = 1 THEN s[1]
  ELSE LET m == MaxSeq(Tail(s)) IN IF s[1] > m THEN s[1] ELSE m

RECURSIVE FilterNumbers(_)
FilterNumbers(s) ==
  IF s = <<>> THEN <<>>
  ELSE IF s[1].t = "number" THEN <<s[1].n>> \o FilterNumbers(Tail(s))
  ELSE FilterNumbers(Tail(s))

\* property names every object inherits from Object.prototype
ProtoKeys == {"constructor", "toString"}

\* the value undefined where a string is expected
JSUndefined == "undefined"

\* what a tool function does: return a string or throw
Ret(v) == [ok |-> TRUE, val |-> v]
Throw(m) == [ok |-> FALSE, val |-> m]

-----------------------------------------------------------------------------
(* Mock data *)

InitMockTables ==
  [Album |->
     [schema |-> [columns |-> <<"AlbumId", "Title", "ArtistId">>,
                  types |-> <<"INTEGER", "NVARCHAR(160)", "INTEGER">>],
      data |-> << [AlbumId |-> 1,
                   Title |-> "For Those About To Rock We Salute You",
                   ArtistId |-> 1],
                  [AlbumId |-> 2, Title |-> "Balls to the Wall",
                   ArtistId |-> 2] >>],
   Artist |->
     [schema |-> [columns |-> <<"ArtistId", "Name">>,
                  types |-> <<"INTEGER", "NVARCHAR(120)">>],
      data |-> << [ArtistId |-> 1, Name |-> "AC/DC"],
                  [ArtistId |-> 2, Name |-> "Accept"] >>]]

\* Fare is kept in hundredths: 7.25 is 725
InitMockData ==
  << [PassengerId |-> Num(1), Survived |-> Num(1), Pclass |-> Num(3),
      Name |-> Str("Braund, Mr. Owen Harris"), Sex |-> Str("male"),
      Age |-> Num(22), SibSp |-> Num(1), Parch |-> Num(0),
      Ticket |-> Str("A/5 21171"), Fare |-> Num(725), Cabin |-> Null,
      Embarked |-> Str("S")] >>

-----------------------------------------------------------------------------
(* Mock data tools: each is the func of the tool, reading the mock data.   *)
(* The result is [out, tables, data]: what the function returns or throws  *)
(* and the mock data it leaves behind.                                     *)

Effect(o, tables, data) == [out |-> o, tables |-> tables, data |-> data]

list_tables(args, tables, data) ==
  Effect(Ret(Stringify(DOMAIN tables)), tables, data)

\* `Table ${table} not found`: table is undefined when the input has none
TableNotFound(args) ==
  "Table "
    \o (IF Has(args, "table") /\ Len(args.str) = 1 THEN args.str[1]
        ELSE JSUndefined)
    \o " not found"

\* mockTables[table] finds the table's own entry or, failing that, a member
\* of Object.prototype, which is truthy and has no schema
get_table_schema(args, tables, data) ==
  IF ~args.def
  THEN Effect(Throw("TypeError"), tables, data)
  ELSE IF Has(args, "table") /\ Len(args.str) = 1 /\ args.str[1] \in DOMAIN tables
  THEN Effect(Ret(Stringify(tables[args.str[1]].schema)), tables, data)
  ELSE IF Has(args, "table") /\ Len(args.str) = 1 /\ args.str[1] \in ProtoKeys
  THEN Effect(Ret(JSUndefined), tables, data)
  ELSE Effect(Throw(TableNotFound(args)), tables, data)

\* had run_query looked for the Artist query first
run_queryArtistFirst(args, tables, data) ==
  IF ~Has(args, "query")
  THEN Effect(Throw("TypeError"), tables, data)
  ELSE IF includes(toLowerCase(args.str), <<"select", "*", "from", "artist">>)
  THEN Effect(Ret(Stringify(tables.Artist.data)), tables, data)
  ELSE IF includes(toLowerCase(args.str), <<"select", "*", "from", "album">>)
  THEN Effect(Ret(Stringify(tables.Album.data)), tables, data)
  ELSE Effect(Throw("Query not supported"), tables, data)

\* the message of the last throw stands for `Query not supported: ${query}`
run_query(args, tables, data) ==
  IF ~Has(args, "query")
  THEN Effect(Throw("TypeError"), tables, data)
  ELSE IF includes(toLowerCase(args.str), <<"select", "*", "from", "album">>)
  THEN Effect(Ret(Stringify(tables.Album.data)), tables, data)
  ELSE IF includes(toLowerCase(args.str), <<"select", "*", "from", "artist">>)
  THEN Effect(Ret(Stringify(tables.Artist.data)), tables, data)
  ELSE Effect(Throw("Query not supported"), tables, data)

df_shape(args, tables, data) ==
  IF data = <<>>
  THEN Effect(Throw("TypeError"), tables, data)
  ELSE Effect(Ret(Stringify(<<Len(data), Cardinality(DOMAIN data[1])>>)),
              tables, data)

\* mockData.slice(0, n): the rows taken (all of them when n is undefined)
df_headRows(data, args) ==
  IF Has(args, "n") THEN slice0(data, args.num) ELSE data

\* had df_head used splice(0, n): the rows taken are removed from the array
df_headSplices(data, args) ==
  SubSeq(data, Len(df_headRows(data, args)) + 1, Len(data))

\* mockData after slice(0, n): slice copies and leaves the array as it was
df_headLeaves(data, args) == data

\* the rows are rebuilt key by key into new objects
df_head(args, tables, data) ==
  LET rows == df_headRows(data, args)
  IN IF ~args.def
     THEN Effect(Throw("TypeError"), tables, data)
     ELSE
     Effect(Ret(Stringify([i \in 1..Len(rows) |->
                             [k \in DOMAIN rows[i] |-> rows[i][k]]])),
            tables, df_headLeaves(data, args))

\* row[column]: the row's own cell or a member of Object.prototype
Cell(row, col) ==
  IF col \in DOMAIN row THEN row[col]
  ELSE [t |-> "function", n |-> 0, s |-> col]

\* "column in mockData[0]" also holds for the members of Object.prototype
\* (the mean is exact while every column holds one number)
df_describe(args, tables, data) ==
  IF ~args.def
  THEN Effect(Throw("TypeError"), tables, data)
  ELSE IF data = <<>> \/ ~Has(args, "column") \/ Len(args.str) # 1
     \/ args.str[1] \notin (DOMAIN data[1] \cup ProtoKeys)
  THEN Effect(Throw("Column not found in DataFrame"), tables, data)
  ELSE LET col == args.str[1]
           values == FilterNumbers([i \in 1..Len(data) |-> Cell(data[i], col)])
       IN IF values = <<>>
          THEN Effect(Ret(Stringify([count |-> 0, mean |-> "null",
                                     min |-> "null", max |-> "null"])),
                      tables, data)
          ELSE Effect(Ret(Stringify(
                        [count |-> Len(values),
                         mean |-> SumSeq(values) \div Len(values),
                         min |-> MinSeq(values),
                         max |-> MaxSeq(values)])),
                      tables, data)

\* pythonReplTool (13_agent_types.ts)
python_repl_ast(args) ==
  IF ~Has(args, "query") THEN Throw("TypeError")
  ELSE IF includes(args.str, <<"fibonacci">>) THEN Ret("55")
  ELSE IF includes(args.str, <<"len">>) THEN Ret("9")
  ELSE Ret("Code executed successfully")

SqlToolNames == {"list_tables", "get_table_schema", "run_query"}
DfToolNames == {"df_shape", "df_head", "df_describe"}
MockToolNames == SqlToolNames \cup DfToolNames

\* toolToRun._call(args) for the tools that read the mock data
CallMockTool(name, args, tables, data) ==
  CASE name = "list_tables" -> list_tables(args, tables, data)
    [] name = "get_table_schema" -> get_table_schema(args, tables, data)
    [] name = "run_query" -> run_query(args, tables, data)
    [] name = "df_shape" -> df_shape(args, tables, data)
    [] name = "df_head" -> df_head(args, tables, data)
    [] name = "df_describe" -> df_describe(args, tables, data)


-----------------------------------------------------------------------------
(* Messages, prompts and the model's responses *)

Msg(role, content) ==
  [role |-> role, content |-> content, name |-> "", arguments |-> "",
   embedded |-> <<>>]

HumanMessage(content) == Msg("human", content)
AIMessage(content) == Msg("ai", content)

\* new AIMessage({content: "", additional_kwargs: {function_call: ...}})
FunctionCallMessage(name, arguments) ==
  [role |-> "ai", content |-> "", name |-> name, arguments |-> arguments,
   embedded |-> <<>>]

\* agent_scratchpad of passThrough: one AIMessage per step, built from the
\* step's action; the step's observation is destructured and not used
RECURSIVE passThrough(_)
passThrough(steps) ==
  IF steps = <<>> THEN <<>>
  ELSE << FunctionCallMessage(steps[1].action.tool,
                              Stringify(steps[1].action.toolInput)) >>
       \o passThrough(Tail(steps))

\* the example functions of unnamed/part_002: each makes one model call
\* inside its own try / catch
Examples002 == {"exemploBasico", "exemploComBind", "exemploForcandoFuncao",
                "exemploComChain", "challenge01Case01", "challenge01Case02",
                "challenge01Case03"}

\* the agent functions of unnamed/part_001, which call their tools themselves
Agents001 == {"part_001.runDataFrameAgent", "part_001.runSQLAgent"}

\* the agent functions
Agents == {"runAgent", "runToolCallingAgent", "runReActAgent",
           "runDataFrameAgent", "runSQLAgent"}

\* the prompt of the agent's chain applied to the input of chain.invoke:
\* system, chat_history (where the prompt has the placeholder), user,
\* agent_scratchpad; the ReAct prompt is one templated message
FormatPrompt(ag, in, history, steps) ==
  CASE ag \in {"runAgent", "runToolCallingAgent"} ->
         <<Msg("system", "system")>> \o history \o <<Msg("human", in)>>
           \o passThrough(steps)
    [] ag \in {"runDataFrameAgent", "runSQLAgent"} \cup Agents001 ->
         <<Msg("system", "system")>> \o <<Msg("human", in)>>
           \o passThrough(steps)
    [] ag = "runReActAgent" ->
         << [role |-> "human", content |-> in, name |-> "",
             arguments |-> "", embedded |-> passThrough(steps)] >>
    [] ag \in {"chain", "exemploComChain", "challenge01Case01",
                "challenge01Case02", "challenge01Case03"} ->
         <<Msg("system", "system")>> \o <<Msg("human", in)>>
    [] ag \in {"exemploBasico", "exemploComBind", "exemploForcandoFuncao"} ->
         <<Msg("human", in)>>
    [] ag = "main03" -> <<[role |-> "user", content |-> in]>>

\* the names of the tools bound to the agent's chain
ToolsOf(ag) ==
  CASE ag \in {"runAgent", "chain"} ->
         {"getCurrentTemperature", "searchWikipedia"}
    [] ag \in {"runToolCallingAgent", "runReActAgent"} -> {"python_repl_ast"}
    [] ag = "runDataFrameAgent" -> DfToolNames
    [] ag = "runSQLAgent" -> SqlToolNames
    [] ag = "part_001.runDataFrameAgent" -> DfToolNames
    [] ag = "part_001.runSQLAgent" ->
         {"sql_list_tables", "sql_get_schema", "sql_query"}

NoReturnValues == [present |-> FALSE, output |-> ""]
ReturnValues(o) == [present |-> TRUE, output |-> o]

ToolCall(name, args) == [name |-> name, args |-> args]

\* a response of the model: an AIMessage (content, tool_calls), an
\* AgentFinish (returnValues) or an AgentAction (tool, toolInput)
Response(content, tool_calls, returnValues, tool, toolInput) ==
  [content |-> content, tool_calls |-> tool_calls,
   returnValues |-> returnValues, tool |-> tool, toolInput |-> toolInput]

-----------------------------------------------------------------------------
(* routeResponse (utils/routeResponse.ts) *)

\* had routeResponse tested the content before the tool calls
RouteCaseContentFirst(resp) ==
  IF resp.content # "" THEN "content"
  ELSE IF Len(resp.tool_calls) > 0 THEN "tool_calls"
  ELSE IF resp.returnValues.present THEN "returnValues"
  ELSE IF resp.tool # "" /\ resp.toolInput.def THEN "old_tool"
  ELSE "unexpected"

\* the branch routeResponse takes, in the order of its if / else if chain
RouteCase(resp) ==
  IF Len(resp.tool_calls) > 0 THEN "tool_calls"
  ELSE IF resp.content # "" THEN "content"
  ELSE IF resp.returnValues.present THEN "returnValues"
  ELSE IF resp.tool # "" /\ resp.toolInput.def THEN "old_tool"
  ELSE "unexpected"

\* had routeResponse taken the last tool call of the list
RouteTargetLast(resp) ==
  IF RouteCase(resp) = "tool_calls"
  THEN resp.tool_calls[Len(resp.tool_calls)]
  ELSE ToolCall(resp.tool, resp.toolInput)

\* the tool call the tool branches run: tool_calls[0] or tool/toolInput
RouteTarget(resp) ==
  IF RouteCase(resp) = "tool_calls" THEN resp.tool_calls[1]
  ELSE ToolCall(resp.tool, resp.toolInput)

\* the result string routeResponse returns for a tool's result
FormatResult(name, result) ==
  IF name = "getCurrentTemperature" THEN "A temperatura atual e " \o result
  ELSE IF name = "searchWikipedia" THEN "Informacoes encontradas: " \o result
  ELSE result

\* toolToRun._call(args) for the tools that need no external call
CallLocalTool(name, args, tables, data) ==
  IF name = "python_repl_ast"
  THEN Effect(python_repl_ast(args), tables, data)
  ELSE CallMockTool(name, args, tables, data)

\* routeResponse(response, tools) for tools that need no external call:
\* [kind, val, ran, tables, data] where kind is "return" or "throw", ran the
\* tool that was executed ("" when none) and tables, data the mock data after
Routed(kind, val, ran, tables, data) ==
  [kind |-> kind, val |-> val, ran |-> ran, tables |-> tables, data |-> data]

\* the messages of the errors routeResponse throws
ToolNotFound(name) == "Tool " \o name \o " not found"

\* had the wrapping error not named the tool
ErrorExecutingToolUnnamed(name, cause) == "Error executing tool: " \o cause

ErrorExecutingTool(name, cause) ==
  "Error executing tool " \o name \o ": " \o cause

\* had find fallen back on some tool of the list
findSome(tools, name) ==
  IF name \in tools THEN name ELSE CHOOSE t \in tools : TRUE

\* tools.find((tool) => tool.name === name): the tool, named by its name
find(tools, name) == IF name \in tools THEN name ELSE JSUndefined

routeResponse(resp, tools, tables, data) ==
  LET c == RouteCase(resp)
      tc == RouteTarget(resp)
      toolToRun == find(tools, tc.name)
  IN CASE c \in {"tool_calls", "old_tool"} ->
            IF toolToRun = JSUndefined
            THEN Routed("throw", ToolNotFound(tc.name), "", tables, data)
            ELSE LET e == CallLocalTool(toolToRun, tc.args, tables, data)
                 IN IF e.out.ok
                    THEN Routed("return", FormatResult(tc.name, e.out.val),
                                toolToRun, e.tables, e.data)
                    ELSE Routed("throw",
                                ErrorExecutingTool(tc.name, e.out.val),
                                toolToRun, e.tables, e.data)
       [] c = "content" -> Routed("return", resp.content, "", tables, data)
       [] c = "returnValues" ->
            Routed("return", resp.returnValues.output, "", tables, data)
       [] c = "unexpected" ->
            Routed("throw", "Unexpected response format", "", tables, data)


-----------------------------------------------------------------------------
(* The scripts and what the outside world may answer *)

Scripts == {"001", "002", "03", "09", "12", "13", "14", "calls12"}

Sessions == {"test-session-1", "default-session"}

Example(ag, in, sess) == [agent |-> ag, input |-> in, session |-> sess]

\* the calls main() makes, in order
Examples(sc) ==
  CASE sc = "001" ->
         << Example("part_001.runDataFrameAgent",
                    "What is the shape of the DataFrame?", ""),
            Example("part_001.runSQLAgent",
                    "Which artist has the most albums?", "") >>
    [] sc = "002" ->
         << Example("exemploBasico", "Qual e a temperatura de Porto Alegre", ""),
            Example("exemploComBind", "Qual e a temperatura de Porto Alegre",
                    ""),
            Example("exemploForcandoFuncao", "Ola", ""),
            Example("exemploComChain", "Qual a temperatura em Floripa?", ""),
            Example("challenge01Case01",
                    "Quais sao os emails do inbox unread sobre tecnologia", ""),
            Example("challenge01Case02",
                    "Quais sao os emails do inbox read sobre tecnologia", ""),
            Example("challenge01Case03",
                    "Quais sao os emails do inbox starred sobre tecnologia",
                    "") >>
    [] sc = "03" ->
         << Example("main03", "Qual e temperatura em Porto Alegre agora?",
                    "") >>
    [] sc = "09" ->
         << Example("chain", "Hello", ""),
            Example("chain", "Who was Isaac Asimov?", ""),
            Example("chain", "What's the temperature in Sao Paulo?", "") >>
    [] sc = "12" ->
         << Example("runAgent", "Meu nome e Adriano", "test-session-1"),
            Example("runAgent", "Qual o meu nome?", "test-session-1"),
            Example("runAgent", "Qual e a temperatura em Porto Alegre?",
                    "test-session-1") >>
    [] sc = "13" ->
         << Example("runToolCallingAgent",
                    "Qual e o decimo valor da sequencia fibonacci?", ""),
            Example("runReActAgent",
                    "Quantas letras tem a palavra LangChain?", "") >>
    [] sc = "14" ->
         << Example("runDataFrameAgent",
                    "What is the shape of the DataFrame?", ""),
            Example("runSQLAgent", "Which artist has the most albums?", "") >>
    [] sc = "calls12" -> <<>>

NumExamples(sc) == IF sc = "calls12" THEN MaxCalls ELSE Len(Examples(sc))

\* the example main() starts next; under "calls12" runAgent is called with
\* any input and any session
NextExamples(sc, i) ==
  IF sc = "calls12"
  THEN {Example("runAgent", "oi", sess) : sess \in Sessions}
  ELSE {Examples(sc)[i]}

UnknownCall == ToolCall("unknown_tool", EmptyObj)
NamelessCall == ToolCall("", EmptyObj)

\* the tool calls the model may ask for, per agent
CallsOf(ag) ==
  CASE ag = "runAgent" ->
         {ToolCall("getCurrentTemperature", NumArg("latitude", 30)),
          ToolCall("searchWikipedia", StrArg("query", <<"Isaac", "Asimov">>)),
          ToolCall("getCurrentTemperature", Undef)}
    [] ag \in {"runToolCallingAgent", "runReActAgent"} ->
         {ToolCall("python_repl_ast", StrArg("query", <<"fibonacci", "10">>)),
          ToolCall("python_repl_ast", StrArg("query", <<"len", "LangChain">>)),
          ToolCall("python_repl_ast", EmptyObj),
          ToolCall("python_repl_ast", Undef)}
    [] ag = "runDataFrameAgent" ->
         {ToolCall("df_shape", EmptyObj),
          ToolCall("df_head", NumArg("n", 1)),
          ToolCall("df_describe", StrArg("column", <<"Age">>)),
          ToolCall("df_describe", StrArg("column", <<"Deck">>)),
          ToolCall("df_shape", Undef)}
    [] ag = "runSQLAgent" ->
         {ToolCall("list_tables", EmptyObj),
          ToolCall("get_table_schema", StrArg("table", <<"Album">>)),
          ToolCall("run_query",
                   StrArg("query", <<"SELECT", "*", "FROM", "Artist">>)),
          ToolCall("run_query", StrArg("query", <<"drop", "table", "album">>)),
          ToolCall("list_tables", Undef)}
    [] ag = "part_001.runDataFrameAgent" ->
         {ToolCall("df_shape", EmptyObj),
          ToolCall("df_head", NumArg("n", 2)),
          ToolCall("df_describe", StrArg("column", <<"Age">>)),
          ToolCall("df_describe", StrArg("column", <<"Name">>)),
          ToolCall("df_head", Undef)}
    [] ag = "part_001.runSQLAgent" ->
         {ToolCall("sql_list_tables", EmptyObj),
          ToolCall("sql_get_schema", StrArg("table", <<"Artist">>)),
          ToolCall("sql_get_schema", StrArg("table", <<"Track">>)),
          ToolCall("sql_query", StrArg("query", <<"SELECT", "COUNT", "(*)">>)),
          ToolCall("sql_query", Undef)}

\* the tool call of the agent's own example
FirstCall(ag) ==
  CASE ag = "runAgent" ->
         ToolCall("getCurrentTemperature", NumArg("latitude", 30))
    [] ag \in {"runToolCallingAgent", "runReActAgent"} ->
         ToolCall("python_repl_ast", StrArg("query", <<"fibonacci", "10">>))
    [] ag = "runDataFrameAgent" -> ToolCall("df_shape", EmptyObj)
    [] ag = "runSQLAgent" -> ToolCall("list_tables", EmptyObj)
    [] ag = "part_001.runDataFrameAgent" -> ToolCall("df_shape", EmptyObj)
    [] ag = "part_001.runSQLAgent" -> ToolCall("sql_list_tables", EmptyObj)

\* another tool call, which the model may list after the first
SecondCall(ag) ==
  CASE ag = "runAgent" ->
         ToolCall("searchWikipedia", StrArg("query", <<"Isaac", "Asimov">>))
    [] ag \in {"runToolCallingAgent", "runReActAgent"} ->
         ToolCall("python_repl_ast", StrArg("query", <<"len", "LangChain">>))
    [] ag = "runDataFrameAgent" -> ToolCall("df_head", NumArg("n", 1))
    [] ag = "runSQLAgent" ->
         ToolCall("get_table_schema", StrArg("table", <<"Album">>))
    [] ag = "part_001.runDataFrameAgent" -> ToolCall("df_head", NumArg("n", 2))
    [] ag = "part_001.runSQLAgent" ->
         ToolCall("sql_get_schema", StrArg("table", <<"Artist">>))

\* the tool_calls lists the model may answer with
ToolCallLists(ag) ==
  {<<c>> : c \in CallsOf(ag) \cup {UnknownCall, NamelessCall}}
    \cup {<<c, UnknownCall>> : c \in CallsOf(ag)}
    \cup {<<FirstCall(ag), SecondCall(ag)>>}

\* the responses chain.invoke may return once nsteps tool calls were
\* answered: without tool calls (with or without content and returnValues),
\* with tool calls alone, and with tool calls next to content or returnValues
Responses(ag, nsteps) ==
  {Response(c, <<>>, r, "", Undef) :
     c \in {"", "texto"}, r \in {NoReturnValues, ReturnValues("saida")}}
    \cup (IF nsteps < MaxSteps
          THEN {Response("", t, NoReturnValues, "", Undef) :
                  t \in ToolCallLists(ag)}
               \cup {Response("texto", <<FirstCall(ag)>>, NoReturnValues, "",
                              Undef)}
          ELSE {})
    \cup {Response("", <<FirstCall(ag)>>, ReturnValues("saida"), "", Undef)}

NoResponse == Response("", <<>>, NoReturnValues, "", Undef)

\* the responses the model may give to an example of part_002: text, or a
\* call of the tool bound to the model
Responses002(ag) ==
  {Response("texto", <<>>, NoReturnValues, "", Undef),
   Response("", << IF ag \in {"challenge01Case01", "challenge01Case02",
                              "challenge01Case03"}
                   THEN ToolCall("getEmails",
                                 StrArg("search", <<"tecnologia">>))
                   ELSE ToolCall("obterTemperaturaAtual",
                                 StrArg("local", <<"Porto", "Alegre">>)) >>,
            NoReturnValues, "", Undef)}

\* the responses the model of the chain of 09 may give to routeResponse
ChainResponses ==
  {Response("Hello!", <<>>, NoReturnValues, "", Undef),
   Response("", <<>>, ReturnValues("saida"), "", Undef),
   Response("", <<>>, NoReturnValues, "", Undef),
   Response("", <<ToolCall("searchWikipedia",
                           StrArg("query", <<"Isaac", "Asimov">>))>>,
            NoReturnValues, "", Undef),
   Response("texto", <<ToolCall("getCurrentTemperature",
                                NumArg("latitude", 30))>>,
            NoReturnValues, "", Undef),
   Response("", <<UnknownCall>>, NoReturnValues, "", Undef),
   Response("", <<>>, NoReturnValues, "getCurrentTemperature",
            NumArg("latitude", 30))}

-----------------------------------------------------------------------------
(* The agent loop: the tests of runAgent, runToolCallingAgent,             *)
(* runReActAgent, runDataFrameAgent and runSQLAgent on a response          *)

\* had the loop tested the content alone
IsDirectContentAlone(resp) == resp.content # ""

\* response.content && !response.tool_calls?.length
IsDirectContent(resp) == resp.content # "" /\ Len(resp.tool_calls) = 0

\* had the loop no test for returnValues
HasReturnValuesNever(resp) == FALSE

\* 'returnValues' in response && typeof ... === 'object' && ... !== null
HasReturnValues(resp) == resp.returnValues.present

IsFinal(resp) == IsDirectContent(resp) \/ HasReturnValues(resp)

\* what the loop returns for a final response
FinalOutput(resp) ==
  IF IsDirectContent(resp) THEN resp.content ELSE resp.returnValues.output

\* had an empty args object counted as no args
IsInvalidToolCallEmptyArgs(resp) ==
  IF Len(resp.tool_calls) = 0 THEN TRUE
  ELSE \/ resp.tool_calls[1].name = ""
       \/ ~resp.tool_calls[1].args.def
       \/ resp.tool_calls[1].args = EmptyObj

\* !toolName || !toolArgs
IsInvalidToolCall(resp) ==
  IF Len(resp.tool_calls) = 0 THEN TRUE
  ELSE resp.tool_calls[1].name = "" \/ ~resp.tool_calls[1].args.def

\* const action: AgentAction
ActionOf(resp) ==
  [tool |-> resp.tool_calls[1].name, toolInput |-> resp.tool_calls[1].args,
   log |-> resp.content]

Step(action, observation) == [action |-> action, observation |-> observation]


-----------------------------------------------------------------------------
(* The network tools of 12_agent_executor_e_memory.ts *)

\* the tools whose function catches its own errors, logs them and re-throws
LoggingTools == {"getCurrentTemperature", "searchWikipedia", "python_repl_ast"}

\* the statuses with which axios resolves (any other status rejects)
ResolvedStatuses == {200, 204}

\* the hourly forecast of a response of the weather API, times in minutes
WeatherBody == [time |-> <<0, 60, 120>>, temperature_2m |-> <<18, 20, 22>>]

\* new Date() when the weather response arrives
Nows == {10, 100}

Abs(x) == IF x < 0 THEN -x ELSE x

\* had the reduce replaced the closest hour by one that is as close
RECURSIVE ClosestFromTiesLater(_, _, _, _)
ClosestFromTiesLater(hours, now, closest, index) ==
  IF index > Len(hours) THEN closest
  ELSE ClosestFromTiesLater(hours, now,
                            IF Abs(hours[index] - now)
                                 <= Abs(hours[closest] - now)
                            THEN index ELSE closest,
                            index + 1)

\* hours.reduce(..., 0): the index (1-based here) of the closest hour
RECURSIVE ClosestFrom(_, _, _, _)
ClosestFrom(hours, now, closest, index) ==
  IF index > Len(hours) THEN closest
  ELSE ClosestFrom(hours, now,
                   IF Abs(hours[index] - now) < Abs(hours[closest] - now)
                   THEN index ELSE closest,
                   index + 1)

closestHourIndex(hours, now) == ClosestFrom(hours, now, 1, 1)

\* `${result.hourly.temperature_2m[closestHourIndex]} C`
TemperatureText(body, now) ==
  LET i == closestHourIndex(body.time, now)
  IN (IF i \in DOMAIN body.temperature_2m
      THEN ToString(body.temperature_2m[i]) ELSE JSUndefined) \o " C"

\* result.hourly.temperature_2m[closestHourIndex] as routeResponse of 09
\* returns it: String(result)
TemperatureString(body, now) ==
  LET i == closestHourIndex(body.time, now)
  IN IF i \in DOMAIN body.temperature_2m
     THEN ToString(body.temperature_2m[i]) ELSE JSUndefined

\* the search answers with this many results at most
MaxResults == 4

Title(i) == "T" \o ToString(i)

\* response.data.query.search of a search response with n results
RECURSIVE SearchResults(_)
SearchResults(n) ==
  IF n = 0 THEN <<>> ELSE Append(SearchResults(n - 1), Title(n))

\* had searchWikipedia taken every search result
FirstAll(results) == results

\* response.data.query.search.slice(0, 3)
FirstThree(results) == slice0(results, 3)

\* had searchWikipedia issued the page requests together (Promise.all)
PageBatchAll(remaining) == remaining

\* the number of page requests searchWikipedia issues before it awaits:
\* the for loop awaits each request before the next
PageBatch(remaining) == 1

Summary(title) == "Title: " \o title \o " Summary: extract of " \o title

RECURSIVE Join(_)
Join(parts) ==
  IF Len(parts) = 1 THEN parts[1]
  ELSE parts[1] \o " || " \o Join(Tail(parts))

\* summaries.length > 0 ? summaries.join("\n\n") : "No results found"
WikipediaText(summaries) ==
  IF Len(summaries) > 0 THEN Join(summaries) ELSE "No results found"

\* the locals of a network tool before its first request: searchStatus is
\* response.status (0 before the search resolves), requested the titles of
\* the page requests issued and statuses the pageResponse.status values, both
\* in the order of time
IdleTool ==
  [tool |-> "", searchStatus |-> 0, results |-> <<>>, requested |-> <<>>,
   issued |-> 0, done |-> 0, statuses |-> <<>>, summaries |-> <<>>]

\* the titles of the page requests that start together: the next batch
\* results of those not yet requested
Requests(results, issued, batch) ==
  [k \in 1..batch |-> results[issued + k]]


-----------------------------------------------------------------------------
(* The mock temperature lookup and the messages of                         *)
(* 03_adding_external_functions_openai.ts                                  *)

\* had unidade no default value
DefaultUnidadeMissing(unidade) == unidade

\* unidade: string = "celsius": the default applies to undefined
DefaultUnidade(unidade) ==
  IF unidade = JSUndefined THEN "celsius" ELSE unidade

\* getCurrentTemperature(local, unidade) of 03; local is a sequence of words
getCurrentTemperature(local, unidade) ==
  IF includes(toLowerCase(local), <<"sao", "paulo">>)
  THEN Stringify([local |-> <<"Sao", "Paulo">>, temperatura |-> "32",
                  unidade |-> DefaultUnidade(unidade)])
  ELSE IF includes(toLowerCase(local), <<"porto", "alegre">>)
  THEN Stringify([local |-> <<"Porto", "Alegre">>, temperatura |-> "25",
                  unidade |-> DefaultUnidade(unidade)])
  ELSE Stringify([local |-> local, temperatura |-> "unknown",
                  unidade |-> DefaultUnidade(unidade)])

\* obterTemperaturaAtual(local, unidade) of part_002
obterTemperaturaAtual(local, unidade) ==
  IF includes(toLowerCase(local), <<"sao", "paulo">>)
  THEN Stringify([local |-> <<"Sao", "Paulo">>, temperatura |-> "32",
                  unidade |-> DefaultUnidade(unidade)])
  ELSE IF includes(toLowerCase(local), <<"porto", "alegre">>)
  THEN Stringify([local |-> <<"Porto", "Alegre">>, temperatura |-> "25",
                  unidade |-> DefaultUnidade(unidade)])
  ELSE Stringify([local |-> local, temperatura |-> "unknown",
                  unidade |-> DefaultUnidade(unidade)])

\* toolCall.function.arguments: a string that JSON.parse accepts or not,
\* and the object it parses to (local may be missing)
Arguments(wellFormed, hasLocal, local, unidade) ==
  [wellFormed |-> wellFormed, hasLocal |-> hasLocal, local |-> local,
   unidade |-> unidade]

\* an element of message.tool_calls
ToolCall03(id, name, arguments) ==
  [id |-> id, name |-> name, arguments |-> arguments]

\* response.choices[0].message: tool_calls is absent or an array
Message03(content, present, list) ==
  [role |-> "assistant", content |-> content,
   tool_calls |-> [present |-> present, list |-> list]]

\* the messages the first completion may answer with
Messages03 ==
  {Message03("Esta quente.", FALSE, <<>>),
   Message03("", TRUE, <<>>)}
    \cup {Message03("", TRUE, <<ToolCall03("call_1", "getCurrentTemperature",
                                           a)>>) :
            a \in {Arguments(TRUE, TRUE, <<"Porto", "Alegre">>, JSUndefined),
                   Arguments(TRUE, TRUE, <<"SAO", "PAULO">>, "fahrenheit"),
                   Arguments(TRUE, TRUE, <<"Lisboa">>, "celsius"),
                   Arguments(TRUE, FALSE, <<>>, JSUndefined),
                   Arguments(FALSE, FALSE, <<>>, JSUndefined)}}
    \cup {Message03("", TRUE,
                    <<ToolCall03("call_1", "getCurrentTemperature",
                                 Arguments(TRUE, TRUE, <<"Porto", "Alegre">>,
                                           "celsius")),
                      ToolCall03("call_2", "getCurrentTemperature",
                                 Arguments(TRUE, TRUE, <<"Sao", "Paulo">>,
                                           "celsius"))>>)}

\* had the tool message carried no tool_call_id
ToolMessageWithoutId(id, content) ==
  [role |-> "tool", tool_call_id |-> "", content |-> content]

\* { tool_call_id: toolCall.id, role: "tool", content: observation }
ToolMessage(id, content) ==
  [role |-> "tool", tool_call_id |-> id, content |-> content]

\* the content of the final completion
FinalContents03 == {"Em Porto Alegre fazem 25 graus.", ""}

-----------------------------------------------------------------------------
(* The mock data and tools of unnamed/part_001: the DataFrame is held      *)
(* column by column, every tool only reads                                 *)

\* Fare is kept in hundredths: 7.25 is 725
mockData001 ==
  [PassengerId |-> <<Num(1), Num(2), Num(3), Num(4), Num(5)>>,
   Survived |-> <<Num(0), Num(1), Num(1), Num(1), Num(0)>>,
   Pclass |-> <<Num(3), Num(1), Num(3), Num(1), Num(3)>>,
   Name |-> <<Str("Braund, Mr. Owen Harris"),
              Str("Cumings, Mrs. John Bradley"), Str("Heikkinen, Miss Laina"),
              Str("Futrelle, Mrs. Jacques Heath"),
              Str("Allen, Mr. William Henry")>>,
   Sex |-> <<Str("male"), Str("female"), Str("female"), Str("female"),
             Str("male")>>,
   Age |-> <<Num(22), Num(38), Num(26), Num(35), Num(35)>>,
   SibSp |-> <<Num(1), Num(1), Num(0), Num(1), Num(0)>>,
   Parch |-> <<Num(0), Num(0), Num(0), Num(0), Num(0)>>,
   Ticket |-> <<Str("A/5 21171"), Str("PC 17599"), Str("STON/O2. 3101282"),
                Str("113803"), Str("373450")>>,
   Fare |-> <<Num(725), Num(7128), Num(792), Num(5310), Num(805)>>,
   Cabin |-> <<Null, Str("C85"), Null, Str("C123"), Null>>,
   Embarked |-> <<Str("S"), Str("C"), Str("S"), Str("S"), Str("S")>>]

mockTables001 ==
  [Album |->
     [columns |-> <<"AlbumId", "Title", "ArtistId">>,
      sample |-> << [AlbumId |-> 1,
                     Title |-> "For Those About To Rock We Salute You",
                     ArtistId |-> 1],
                    [AlbumId |-> 2, Title |-> "Balls to the Wall",
                     ArtistId |-> 2],
                    [AlbumId |-> 3, Title |-> "Restless and Wild",
                     ArtistId |-> 2] >>],
   Artist |->
     [columns |-> <<"ArtistId", "Name">>,
      sample |-> << [ArtistId |-> 1, Name |-> "AC/DC"],
                    [ArtistId |-> 2, Name |-> "Accept"],
                    [ArtistId |-> 3, Name |-> "Aerosmith"] >>]]

dfShapeTool(args) ==
  Ret(Stringify(<<Len(mockData001.PassengerId),
                  Cardinality(DOMAIN mockData001)>>))

\* Math.min(input.n, length) is NaN when n is missing: the loop does not run
dfHeadTool(args) ==
  IF ~args.def THEN Throw("TypeError")
  ELSE LET len == Len(mockData001.PassengerId)
           n == IF ~Has(args, "n") \/ args.num < 0 THEN 0
                ELSE IF args.num < len THEN args.num ELSE len
       IN Ret(Stringify([i \in 1..n |->
                           [key \in DOMAIN mockData001 |->
                              mockData001[key][i]]]))

\* "column in mockData" also holds for the members of Object.prototype,
\* which have no filter; the mean is given as sum / count
dfDescribeTool(args) ==
  IF ~args.def THEN Throw("TypeError")
  ELSE IF ~Has(args, "column") \/ Len(args.str) # 1
          \/ args.str[1] \notin (DOMAIN mockData001 \cup ProtoKeys)
  THEN Throw("Column not found")
  ELSE IF args.str[1] \in ProtoKeys THEN Throw("TypeError")
  ELSE LET values == FilterNumbers(mockData001[args.str[1]])
       IN IF values = <<>>
          THEN Throw("Column does not contain numeric values")
          ELSE Ret(Stringify([count |-> Len(values),
                              mean |-> <<SumSeq(values), Len(values)>>,
                              min |-> MinSeq(values),
                              max |-> MaxSeq(values),
                              sum |-> SumSeq(values)]))

\* Object.keys(mockTables).join(", ")
listTablesTool(args) == Ret("Album, Artist")

\* mockTables[input.table] finds the table's own entry or, failing that, a
\* member of Object.prototype, which is truthy and has no columns or sample
getTableSchemaTool(args) ==
  IF ~args.def THEN Throw("TypeError")
  ELSE IF Has(args, "table") /\ Len(args.str) = 1
          /\ args.str[1] \in DOMAIN mockTables001
  THEN Ret(Stringify(mockTables001[args.str[1]]))
  ELSE IF Has(args, "table") /\ Len(args.str) = 1
          /\ args.str[1] \in ProtoKeys
  THEN Ret("{}")
  ELSE Throw(TableNotFound(args))

queryTool(args) ==
  IF ~Has(args, "query") THEN Throw("TypeError")
  ELSE IF includes(toLowerCase(args.str), <<"select", "count">>)
  THEN Ret("21")
  ELSE Ret(Stringify(<<[Name |-> "Iron Maiden", NumAlbums |-> 21]>>))

\* toolToRun._call(toolArgs) for the tools of part_001
CallTool001(name, args) ==
  CASE name = "df_shape" -> dfShapeTool(args)
    [] name = "df_head" -> dfHeadTool(args)
    [] name = "df_describe" -> dfDescribeTool(args)
    [] name = "sql_list_tables" -> listTablesTool(args)
    [] name = "sql_get_schema" -> getTableSchemaTool(args)
    [] name = "sql_query" -> queryTool(args)

-----------------------------------------------------------------------------
(* Initial state *)

NoCounters == [model |-> 0, calls |-> 0, tools |-> 0, steps |-> 0]

NoError == [kind |-> "none", message |-> ""]
Error(kind, message) == [kind |-> kind, message |-> message]

\* no weather response handled yet
NoForecast == [time |-> <<>>, temperature_2m |-> <<>>, now |-> 0,
               text |-> "", string |-> ""]

\* no lookup made yet; an output "" is one not computed
NoLookup == [local |-> <<>>, unidade |-> "", out03 |-> "", out002 |-> ""]

IdleDirect ==
  /\ lastCall = ToolCall("", Undef)
  /\ lastOut = Ret("")
  /\ memo = [call |-> ToolCall("", Undef), out |-> Ret("")]
  /\ lookup = NoLookup
  /\ forecast = NoForecast

IdleRouted ==
  routed = [resp |-> NoResponse, tools |-> {},
            outcome |-> Routed("", "", "", InitMockTables, InitMockData)]

IdleAgent ==
  /\ exIdx = 1
  /\ pc = "idle"
  /\ agent = ""
  /\ input = ""
  /\ sessionId = ""
  /\ intermediateSteps = <<>>
  /\ chatHistory = <<>>
  /\ response = NoResponse
  /\ modelInput = <<>>
  /\ toolState = IdleTool
  /\ executed = <<>>
  /\ outstanding = 0
  /\ transcript = [x \in Sessions |-> <<>>]
  /\ returned = <<>>
  /\ err = NoError
  /\ errorLog = <<>>
  /\ catches = <<>>
  /\ counters = NoCounters

Init ==
  /\ script \in Scripts
  /\ mainState = "running"
  /\ IdleAgent
  /\ mockTables = InitMockTables
  /\ mockData = InitMockData
  /\ IdleDirect
  /\ IdleRouted

-----------------------------------------------------------------------------
(* main() and the agent functions *)

\* the function returns value to main, which goes on to the next example
ReturnToMain(value) ==
  /\ returned' = Append(returned, [agent |-> agent, input |-> input,
                                   session |-> sessionId, value |-> value])
  /\ pc' = "idle"
  /\ exIdx' = exIdx + 1
  /\ mainState' = IF exIdx + 1 > NumExamples(script) THEN "done" ELSE "running"
  /\ UNCHANGED <<err, errorLog, catches>>

\* an error leaves the function: inner lists the catch blocks that handle and
\* re-throw it on the way ("tool" logs it, "routeResponse" wraps it), then
\* the catch of main logs it and main ends
ThrowToMain(kind, message, inner) ==
  /\ err' = Error(kind, message)
  /\ catches' = catches \o inner \o <<"main">>
  /\ errorLog' = errorLog \o SelectSeq(inner, LAMBDA c : c = "tool") \o <<"main">>
  /\ mainState' = "done"
  /\ pc' = "thrown"
  /\ UNCHANGED <<returned, exIdx>>

\* had the catch of an example ended main
CatchEndsMain(kind, message) == ThrowToMain(kind, message, <<>>)

\* part_002: the catch of the example function logs the error; the function
\* returns and main goes on to the next example
CatchInExample(kind, message) ==
  /\ err' = Error(kind, message)
  /\ catches' = Append(catches, agent)
  /\ errorLog' = Append(errorLog, agent)
  /\ pc' = "idle"
  /\ exIdx' = exIdx + 1
  /\ mainState' = IF exIdx + 1 > NumExamples(script) THEN "done" ELSE "running"
  /\ UNCHANGED returned

\* had no tool a catch block of its own
InnerCatchesRouteOnly(tool) == <<"routeResponse">>

\* the catch blocks between a failing tool and main
InnerCatches(tool) ==
  IF tool \in LoggingTools THEN <<"tool", "routeResponse">>
  ELSE <<"routeResponse">>

\* intermediateSteps.push([action, result]) and the next chain.invoke
PushAndInvoke(observation) ==
  /\ intermediateSteps' =
       Append(intermediateSteps, Step(ActionOf(response), observation))
  /\ modelInput' =
       FormatPrompt(agent, input, chatHistory,
                    Append(intermediateSteps,
                           Step(ActionOf(response), observation)))
  /\ pc' = "model"
  /\ counters' = [counters EXCEPT !.model = @ + 1]
  /\ UNCHANGED <<returned, exIdx, mainState, err, errorLog, catches>>

\* had chatHistory been declared outside the agent function
KeptChatHistory(old) == old

\* let chatHistory = [] at the start of the agent function
NewChatHistory(old) == <<>>

\* main calls the next agent function; runAgent first reads the history of
\* the session, the other agents start with an empty chatHistory and invoke
\* the chain at once
StartExample ==
  /\ mainState = "running"
  /\ pc = "idle"
  /\ exIdx <= NumExamples(script)
  /\ \E ex \in NextExamples(script, exIdx) :
       /\ agent' = ex.agent
       /\ input' = ex.input
       /\ sessionId' = ex.session
       /\ IF ex.agent = "runAgent"
          THEN /\ pc' = "getMessages"
               /\ modelInput' = <<>>
               /\ counters' = [counters EXCEPT !.model = 0, !.calls = 0,
                                               !.tools = 0]
          ELSE /\ pc' = "model"
               /\ modelInput' = FormatPrompt(ex.agent, ex.input,
                                             NewChatHistory(chatHistory),
                                             <<>>)
               /\ counters' = [counters EXCEPT !.model = 1, !.calls = 0,
                                               !.tools = 0]
  /\ intermediateSteps' = <<>>
  /\ chatHistory' = NewChatHistory(chatHistory)
  /\ response' = NoResponse
  /\ toolState' = IdleTool
  /\ executed' = <<>>
  /\ outstanding' = outstanding + 1
  /\ UNCHANGED <<script, exIdx, mainState, transcript, returned, err, errorLog,
                 catches, dataVars, directVars, routed>>

\* had runAgent started every call from an empty history
getMessagesEmpty(store, sess) == <<>>

\* had the history been one list for all sessions
getMessagesOfAll(store, sess) ==
  store["test-session-1"] \o store["default-session"]

\* (await getMessageHistory(sessionId)).getMessages(): the stored messages
\* of the session
getMessages(store, sess) == store[sess]

\* had runAgent added the answer before the input
SavedTurnsAnswerFirst(in, out) == <<AIMessage(out), HumanMessage(in)>>

\* the two messages runAgent adds to the history for a final answer
SavedTurns(in, out) == <<HumanMessage(in), AIMessage(out)>>

\* had runAgent saved the input before its loop
SavedAtStartInput(in) == <<HumanMessage(in)>>

\* what runAgent adds to the history before its loop: nothing
SavedAtStart(in) == <<>>

\* messageHistory.getMessages() resolves; the first chain.invoke is issued
GetMessagesReturns ==
  /\ pc = "getMessages"
  /\ transcript' = [transcript EXCEPT ![sessionId] = @ \o SavedAtStart(input)]
  /\ chatHistory' = getMessages(transcript, sessionId)
  /\ modelInput' = FormatPrompt(agent, input,
                               getMessages(transcript, sessionId),
                               intermediateSteps)
  /\ pc' = "model"
  /\ counters' = [counters EXCEPT !.model = @ + 1]
  /\ UNCHANGED <<script, exIdx, mainState, agent, input, sessionId,
                 intermediateSteps, response, toolState, executed,
                 outstanding, returned, err, errorLog, catches, dataVars,
                 directVars, routed>>

\* chain.invoke rejects (network failure, malformed provider response)
ModelFails ==
  /\ pc = "model"
  /\ outstanding' = outstanding - 1
  /\ IF agent \in Examples002
     THEN CatchInExample("model", "model call failed")
     ELSE ThrowToMain("model", "model call failed", <<>>)
  /\ UNCHANGED <<script, agent, input, sessionId, intermediateSteps,
                 chatHistory, response, modelInput, toolState, executed, transcript,
                 counters, dataVars, directVars, routed>>

\* chain.invoke resolves with a final response; runAgent saves the turn to
\* the history before it returns, the other agents push it to their local
\* chatHistory and return
ModelReturnsFinal ==
  /\ pc = "model"
  /\ agent \in Agents
  /\ \E resp \in Responses(agent, counters.steps) :
       /\ IsFinal(resp)
       /\ response' = resp
       /\ IF agent = "runAgent"
          THEN /\ pc' = "saveHuman"
               /\ UNCHANGED <<outstanding, chatHistory, returned, exIdx,
                              mainState, err, errorLog, catches>>
          ELSE /\ outstanding' = outstanding - 1
               /\ chatHistory' = chatHistory \o
                    <<HumanMessage(input), AIMessage(FinalOutput(resp))>>
               /\ ReturnToMain(FinalOutput(resp))
  /\ UNCHANGED <<script, agent, input, sessionId, intermediateSteps,
                 modelInput, toolState, executed, transcript, counters, dataVars,
                 directVars, routed>>

\* messageHistory.addMessage(new HumanMessage(input)) resolves
SaveHumanReturns ==
  /\ pc = "saveHuman"
  /\ transcript' =
       [transcript EXCEPT
          ![sessionId] = Append(@, SavedTurns(input, FinalOutput(response))[1])]
  /\ pc' = "saveAI"
  /\ UNCHANGED <<script, exIdx, mainState, agent, input, sessionId,
                 intermediateSteps, chatHistory, response, modelInput,
                 toolState, executed, outstanding, returned, err, errorLog, catches,
                 counters, dataVars, directVars, routed>>

\* messageHistory.addMessage(new AIMessage(...)) resolves; runAgent returns
SaveAIReturns ==
  /\ pc = "saveAI"
  /\ transcript' =
       [transcript EXCEPT
          ![sessionId] = Append(@, SavedTurns(input, FinalOutput(response))[2])]
  /\ outstanding' = outstanding - 1
  /\ ReturnToMain(FinalOutput(response))
  /\ UNCHANGED <<script, agent, input, sessionId, intermediateSteps,
                 chatHistory, response, modelInput, toolState, executed, counters,
                 dataVars, directVars, routed>>

\* chain.invoke resolves with a response that is not final and has no valid
\* first tool call
ModelReturnsInvalid ==
  /\ pc = "model"
  /\ agent \in Agents
  /\ \E resp \in Responses(agent, counters.steps) :
       /\ ~IsFinal(resp)
       /\ IsInvalidToolCall(resp)
       /\ response' = resp
  /\ outstanding' = outstanding - 1
  /\ ThrowToMain("invalid", "Invalid tool call response", <<>>)
  /\ UNCHANGED <<script, agent, input, sessionId, intermediateSteps,
                 chatHistory, modelInput, toolState, executed, transcript, counters,
                 dataVars, directVars, routed>>

\* chain.invoke resolves with a tool call (runToolCallingAgent,
\* runReActAgent, runDataFrameAgent, runSQLAgent): routeResponse runs the
\* tool, the step is pushed and the chain is invoked again
ModelReturnsToolCall ==
  /\ pc = "model"
  /\ agent \in Agents \ {"runAgent"}
  /\ \E resp \in Responses(agent, counters.steps) :
       /\ ~IsFinal(resp)
       /\ ~IsInvalidToolCall(resp)
       /\ response' = resp
       /\ LET r == routeResponse(resp, ToolsOf(agent), mockTables, mockData)
              ran == IF r.ran = "" THEN 0 ELSE 1
          IN /\ mockTables' = r.tables
             /\ mockData' = r.data
             /\ executed' = IF r.ran = "" THEN executed
                            ELSE Append(executed,
                                        ToolCall(r.ran, RouteTarget(resp).args))
             /\ IF r.kind = "return"
                THEN /\ intermediateSteps' =
                          Append(intermediateSteps, Step(ActionOf(resp), r.val))
                     /\ modelInput' =
                          FormatPrompt(agent, input, chatHistory,
                                       Append(intermediateSteps,
                                              Step(ActionOf(resp), r.val)))
                     /\ pc' = "model"
                     /\ counters' = [model |-> counters.model + 1,
                                     calls |-> counters.calls + 1,
                                     tools |-> counters.tools + ran,
                                     steps |-> counters.steps + 1]
                     /\ UNCHANGED <<outstanding, returned, exIdx, mainState,
                                    err, errorLog, catches>>
                ELSE /\ outstanding' = outstanding - 1
                     /\ counters' = [counters EXCEPT !.calls = @ + 1,
                                                     !.tools = @ + ran,
                                                     !.steps = @ + 1]
                     /\ ThrowToMain(IF r.ran = "" THEN "notfound" ELSE "tool",
                                     r.val,
                                     IF r.ran = "" THEN <<>>
                                     ELSE InnerCatches(r.ran))
                     /\ UNCHANGED <<intermediateSteps, modelInput>>
  /\ UNCHANGED <<script, agent, input, sessionId, chatHistory, toolState,
                 transcript, directVars, routed>>


-----------------------------------------------------------------------------
(* runAgent (12): routeResponse with the network tools *)

\* chain.invoke resolves with a tool call: routeResponse of 12 looks the tool
\* up and calls it; the tool issues its first request
ModelReturnsNetworkToolCall ==
  /\ pc = "model"
  /\ agent = "runAgent"
  /\ \E resp \in Responses(agent, counters.steps) :
       /\ ~IsFinal(resp)
       /\ ~IsInvalidToolCall(resp)
       /\ response' = resp
       /\ LET tc == RouteTarget(resp)
          IN IF tc.name \notin ToolsOf(agent)
             THEN /\ outstanding' = outstanding - 1
                  /\ counters' = [counters EXCEPT !.calls = @ + 1,
                                                  !.steps = @ + 1]
                  /\ ThrowToMain("notfound", ToolNotFound(tc.name), <<>>)
                  /\ UNCHANGED <<toolState, executed>>
             ELSE /\ toolState' = [IdleTool EXCEPT !.tool = tc.name]
                  /\ executed' = Append(executed, tc)
                  /\ pc' = IF tc.name = "getCurrentTemperature"
                           THEN "weather" ELSE "wikiSearch"
                  /\ counters' = [counters EXCEPT !.calls = @ + 1,
                                                  !.tools = @ + 1,
                                                  !.steps = @ + 1]
                  /\ UNCHANGED <<outstanding, returned, exIdx, mainState, err,
                                 errorLog, catches>>
  /\ UNCHANGED <<script, agent, input, sessionId, intermediateSteps,
                 chatHistory, modelInput, transcript, dataVars, directVars,
                 routed>>

\* chain of 09: the model's response goes to routeResponse (09), whose
\* outcome is the outcome of chain.invoke
ChainModelReturns ==
  /\ pc = "model"
  /\ agent = "chain"
  /\ \E resp \in ChainResponses :
       /\ response' = resp
       /\ LET c == RouteCase(resp)
              tc == RouteTarget(resp)
          IN IF c \in {"tool_calls", "old_tool"} /\ tc.name \in ToolsOf(agent)
             THEN /\ toolState' = [IdleTool EXCEPT !.tool = tc.name]
                  /\ executed' = Append(executed, tc)
                  /\ pc' = IF tc.name = "getCurrentTemperature"
                           THEN "weather" ELSE "wikiSearch"
                  /\ counters' = [counters EXCEPT !.calls = @ + 1,
                                                  !.tools = @ + 1]
                  /\ UNCHANGED <<outstanding, returned, exIdx, mainState, err,
                                 errorLog, catches>>
             ELSE /\ outstanding' = outstanding - 1
                  /\ UNCHANGED <<toolState, executed>>
                  /\ IF c \in {"tool_calls", "old_tool"}
                     THEN /\ ThrowToMain("notfound", ToolNotFound(tc.name), <<>>)
                          /\ counters' = [counters EXCEPT !.calls = @ + 1]
                     ELSE IF c = "content"
                     THEN ReturnToMain(resp.content) /\ UNCHANGED counters
                     ELSE IF c = "returnValues"
                     THEN /\ ReturnToMain(resp.returnValues.output)
                          /\ UNCHANGED counters
                     ELSE /\ ThrowToMain("unexpected",
                                          "Unexpected response format", <<>>)
                          /\ UNCHANGED counters
  /\ UNCHANGED <<script, agent, input, sessionId, intermediateSteps,
                 chatHistory, modelInput, transcript, dataVars, directVars,
                 routed>>

\* main of 03: the first completion resolves.  Without tool_calls main
\* ends; otherwise the arguments of the first tool call are parsed, the
\* function is called and the second completion is requested
FirstCompletionReturns ==
  /\ pc = "model"
  /\ agent = "main03"
  /\ counters.model = 1
  /\ \E message \in Messages03 :
       /\ response' = message
       /\ IF ~message.tool_calls.present
          THEN /\ outstanding' = outstanding - 1
               /\ ReturnToMain(JSUndefined)
               /\ UNCHANGED <<modelInput, counters, executed>>
          ELSE IF message.tool_calls.list = <<>>
          THEN /\ outstanding' = outstanding - 1
               /\ ThrowToMain("type", "TypeError", <<>>)
               /\ UNCHANGED <<modelInput, counters, executed>>
          ELSE LET toolCall == message.tool_calls.list[1]
                   functionArgs == toolCall.arguments
               IN IF ~functionArgs.wellFormed
                  THEN /\ outstanding' = outstanding - 1
                       /\ ThrowToMain("parse", "SyntaxError", <<>>)
                       /\ UNCHANGED <<modelInput, counters, executed>>
                  ELSE IF ~functionArgs.hasLocal
                  THEN /\ outstanding' = outstanding - 1
                       /\ ThrowToMain("type", "TypeError", <<>>)
                       /\ UNCHANGED <<modelInput, counters, executed>>
                  ELSE /\ modelInput' =
                            << [role |-> "user", content |-> input],
                               message,
                               ToolMessage(toolCall.id,
                                           getCurrentTemperature(
                                             functionArgs.local,
                                             functionArgs.unidade)) >>
                       /\ counters' = [counters EXCEPT !.model = @ + 1,
                                                       !.calls = @ + 1,
                                                       !.tools = @ + 1]
                       /\ executed' =
                            Append(executed,
                                   [name |-> "getCurrentTemperature",
                                    args |-> functionArgs])
                       /\ UNCHANGED <<pc, outstanding, returned, exIdx,
                                      mainState, err, errorLog, catches>>
  /\ UNCHANGED <<script, agent, input, sessionId, intermediateSteps,
                 chatHistory, toolState, transcript, dataVars, directVars,
                 routed>>

\* main of 03: the second completion resolves and main ends
FinalCompletionReturns ==
  /\ pc = "model"
  /\ agent = "main03"
  /\ counters.model = 2
  /\ \E content \in FinalContents03 :
       /\ outstanding' = outstanding - 1
       /\ ReturnToMain(content)
  /\ UNCHANGED <<script, agent, input, sessionId, intermediateSteps,
                 chatHistory, response, modelInput, toolState, executed, transcript,
                 counters, dataVars, directVars, routed>>

\* runDataFrameAgent and runSQLAgent of part_001: chain.invoke resolves; a
\* final response is returned, an invalid tool call and an unknown tool
\* throw, otherwise the tool of the first tool call is called, whose error
\* goes to main as it is, and whose result gives a step and the next
\* chain.invoke
ModelReturns001 ==
  /\ pc = "model"
  /\ agent \in Agents001
  /\ \E resp \in Responses(agent, counters.steps) :
       /\ response' = resp
       /\ IF IsDirectContent(resp)
          THEN /\ outstanding' = outstanding - 1
               /\ ReturnToMain(resp.content)
               /\ UNCHANGED <<intermediateSteps, modelInput, counters,
                              executed>>
          ELSE IF HasReturnValues(resp)
          THEN /\ outstanding' = outstanding - 1
               /\ ReturnToMain(resp.returnValues.output)
               /\ UNCHANGED <<intermediateSteps, modelInput, counters,
                              executed>>
          ELSE IF IsInvalidToolCall(resp)
          THEN /\ outstanding' = outstanding - 1
               /\ ThrowToMain("invalid", "Invalid tool call response", <<>>)
               /\ UNCHANGED <<intermediateSteps, modelInput, counters,
                              executed>>
          ELSE LET action == ActionOf(resp)
                   toolToRun == find(ToolsOf(agent), action.tool)
               IN IF toolToRun = JSUndefined
                  THEN /\ outstanding' = outstanding - 1
                       /\ ThrowToMain("notfound", ToolNotFound(action.tool),
                                       <<>>)
                       /\ counters' = [counters EXCEPT !.calls = @ + 1,
                                                       !.steps = @ + 1]
                       /\ UNCHANGED <<intermediateSteps, modelInput,
                                      executed>>
                  ELSE LET result == CallTool001(toolToRun, action.toolInput)
                       IN /\ executed' =
                               Append(executed,
                                      ToolCall(toolToRun, action.toolInput))
                          /\ IF result.ok
                             THEN /\ intermediateSteps' =
                                       Append(intermediateSteps,
                                              Step(action, result.val))
                                  /\ modelInput' =
                                       FormatPrompt(agent, input, <<>>,
                                         Append(intermediateSteps,
                                                Step(action, result.val)))
                                  /\ pc' = "model"
                                  /\ UNCHANGED <<outstanding, returned,
                                                 exIdx, mainState, err,
                                                 errorLog, catches>>
                             ELSE /\ outstanding' = outstanding - 1
                                  /\ ThrowToMain("tool", result.val, <<>>)
                                  /\ UNCHANGED <<intermediateSteps,
                                                 modelInput>>
                          /\ counters' =
                               [model |-> counters.model
                                            + (IF result.ok THEN 1 ELSE 0),
                                calls |-> counters.calls + 1,
                                tools |-> counters.tools + 1,
                                steps |-> counters.steps + 1]
  /\ UNCHANGED <<script, agent, input, sessionId, chatHistory, toolState,
                 transcript, dataVars, directVars, routed>>

\* an example of part_002: the model call resolves, the response is logged
\* and the function returns nothing
ModelReturns002 ==
  /\ pc = "model"
  /\ agent \in Examples002
  /\ \E resp \in Responses002(agent) : response' = resp
  /\ outstanding' = outstanding - 1
  /\ ReturnToMain(JSUndefined)
  /\ UNCHANGED <<script, agent, input, sessionId, intermediateSteps,
                 chatHistory, modelInput, toolState, executed, transcript,
                 counters, dataVars, directVars, routed>>

\* the tool returned result.  In runAgent routeResponse formats it, the
\* step is pushed and the chain is invoked again; in the chain of 09
\* routeResponse returns String(result), which is what chain.invoke gives
\* to main
ToolReturns(result) ==
  /\ IF agent = "chain"
     THEN /\ outstanding' = outstanding - 1
          /\ ReturnToMain(result)
          /\ UNCHANGED <<intermediateSteps, modelInput, counters>>
     ELSE /\ PushAndInvoke(FormatResult(toolState.tool, result))
          /\ UNCHANGED outstanding
  /\ UNCHANGED <<executed, script, agent, input, sessionId, chatHistory, response,
                 transcript, dataVars, directVars, routed>>

\* the tool threw: its catch logs and re-throws, routeResponse wraps the
\* error, main catches it
ToolThrows(cause) ==
  /\ ThrowToMain("tool", ErrorExecutingTool(toolState.tool, cause),
                  InnerCatches(toolState.tool))
  /\ UNCHANGED <<script, agent, input, sessionId, intermediateSteps,
                 chatHistory, response, modelInput, executed, transcript,
                 counters, dataVars, directVars, routed>>

\* axios.get of the weather API resolves
WeatherReturns ==
  /\ pc = "weather"
  /\ \E status \in ResolvedStatuses, now \in Nows :
       IF status = 200
       THEN ToolReturns(IF agent = "chain"
                        THEN TemperatureString(WeatherBody, now)
                        ELSE TemperatureText(WeatherBody, now))
       ELSE /\ ToolThrows("Request to API failed")
            /\ outstanding' = outstanding - 1
  /\ UNCHANGED toolState

\* axios.get of the weather API rejects
WeatherFails ==
  /\ pc = "weather"
  /\ ToolThrows("AxiosError")
  /\ outstanding' = outstanding - 1
  /\ UNCHANGED toolState

\* the search request of searchWikipedia resolves; with status 200 the page
\* requests of the first three results start
WikiSearchReturns ==
  /\ pc = "wikiSearch"
  /\ \E status \in ResolvedStatuses, n \in 0..MaxResults :
       LET results == FirstThree(SearchResults(n))
           batch == IF PageBatch(Len(results)) > Len(results)
                    THEN Len(results) ELSE PageBatch(Len(results))
       IN IF status # 200
          THEN /\ ToolThrows("Wikipedia search failed")
               /\ outstanding' = outstanding - 1
               /\ toolState' = [toolState EXCEPT !.searchStatus = status]
          ELSE IF results = <<>>
          THEN /\ ToolReturns(WikipediaText(<<>>))
               /\ toolState' = [toolState EXCEPT !.searchStatus = status]
          ELSE /\ toolState' = [toolState EXCEPT
                                  !.searchStatus = status,
                                  !.results = results,
                                  !.requested = Requests(results, 0, batch),
                                  !.issued = batch]
               /\ outstanding' = outstanding - 1 + batch
               /\ pc' = "wikiPage"
               /\ UNCHANGED <<executed, script, exIdx, mainState, agent, input,
                              sessionId, intermediateSteps, chatHistory,
                              response, modelInput, transcript, returned, err,
                              errorLog, catches, counters, dataVars,
                              directVars, routed>>

\* the search request rejects
WikiSearchFails ==
  /\ pc = "wikiSearch"
  /\ ToolThrows("AxiosError")
  /\ outstanding' = outstanding - 1
  /\ UNCHANGED toolState

\* a page request resolves; its summary is kept when the status is 200; the
\* next page request is issued, or after the last page the tool returns
WikiPageReturns ==
  /\ pc = "wikiPage"
  /\ \E status \in ResolvedStatuses :
       LET title == toolState.results[toolState.done + 1]
           summaries == IF status = 200
                        THEN Append(toolState.summaries, Summary(title))
                        ELSE toolState.summaries
           done == toolState.done + 1
           left == Len(toolState.results) - toolState.issued
           batch == IF done < toolState.issued THEN 0
                    ELSE IF PageBatch(left) > left THEN left
                    ELSE PageBatch(left)
       IN IF done = Len(toolState.results)
          THEN /\ ToolReturns(WikipediaText(summaries))
               /\ toolState' = [toolState EXCEPT
                                  !.summaries = summaries,
                                  !.statuses = Append(@, status),
                                  !.done = done]
          ELSE /\ toolState' = [toolState EXCEPT
                                  !.summaries = summaries,
                                  !.statuses = Append(@, status),
                                  !.done = done,
                                  !.requested =
                                    @ \o Requests(toolState.results,
                                                  toolState.issued, batch),
                                  !.issued = @ + batch]
               /\ outstanding' = outstanding - 1 + batch
               /\ UNCHANGED <<executed, script, exIdx, mainState, pc, agent, input,
                              sessionId, intermediateSteps, chatHistory,
                              response, modelInput, transcript, returned, err,
                              errorLog, catches, counters, dataVars,
                              directVars, routed>>

\* a page request rejects
WikiPageFails ==
  /\ pc = "wikiPage"
  /\ ToolThrows("AxiosError")
  /\ outstanding' = outstanding - 1
  /\ UNCHANGED toolState

-----------------------------------------------------------------------------
(* Specification of the scripts *)

Next ==
  \/ StartExample
  \/ GetMessagesReturns
  \/ ModelFails
  \/ ModelReturnsFinal
  \/ SaveHumanReturns
  \/ SaveAIReturns
  \/ ModelReturnsInvalid
  \/ ModelReturnsToolCall
  \/ ModelReturnsNetworkToolCall
  \/ ChainModelReturns
  \/ ModelReturns001
  \/ ModelReturns002
  \/ FirstCompletionReturns
  \/ FinalCompletionReturns
  \/ WeatherReturns
  \/ WeatherFails
  \/ WikiSearchReturns
  \/ WikiSearchFails
  \/ WikiPageReturns
  \/ WikiPageFails

Spec == Init /\ [][Next]_vars

-----------------------------------------------------------------------------
(* The scripts under fair scheduling: the event loop runs a continuation   *)
(* once its promise settles, and every request is answered or fails        *)

LiveInit == Init /\ script \in {"001", "002", "03", "09", "12", "13", "14"}

LiveSpec == LiveInit /\ [][Next]_vars /\ WF_vars(Next)

-----------------------------------------------------------------------------
(* The mock data tools called directly, in any order, any number of times  *)

\* the arguments a caller may pass to each tool
\* queries given to run_query: each supported one alone, in either case
\* and inside a longer query, both together in either order, and queries
\* that hold neither
Queries ==
  {<<"select", "*", "from", "album">>,
   <<"SELECT", "*", "FROM", "ARTIST">>,
   <<"explain", "Select", "*", "From", "Album", "limit", "1">>,
   <<"select", "*", "from", "artist", "union", "select", "*", "from", "album">>,
   <<"SELECT", "*", "FROM", "Album", "union", "select", "*", "from", "Artist">>,
   <<"select", "Name", "from", "artist">>,
   <<"select", "*", "from", "track">>,
   <<"drop", "table", "album">>,
   <<>>}

DirectArgs(name) ==
  CASE name = "list_tables" -> {EmptyObj, Undef}
    [] name = "get_table_schema" ->
         {StrArg("table", <<t>>) : t \in {"Album", "Artist", "Track",
                                          "album", "toString",
                                          "constructor"}} \cup {EmptyObj}
    [] name = "run_query" ->
         {StrArg("query", q) : q \in Queries} \cup {EmptyObj}
    [] name = "df_shape" -> {EmptyObj, Undef}
    [] name = "df_head" -> {NumArg("n", n) : n \in {-1, 0, 1, 2}} \cup {EmptyObj}
    [] name = "df_describe" ->
         {StrArg("column", <<c>>) : c \in {"Age", "Deck", "Name", "Fare",
                                           "constructor"}} \cup {EmptyObj}

\* the caller records what tool._call(args) gave; memo keeps an earlier call
\* and its output: the call before this one, or the one kept so far
Called(name, args, e, remember) ==
  /\ lastCall' = ToolCall(name, args)
  /\ lastOut' = e.out
  /\ mockTables' = e.tables
  /\ mockData' = e.data
  /\ memo' = IF remember THEN [call |-> lastCall, out |-> lastOut] ELSE memo
  /\ UNCHANGED <<agentVars, routed, lookup, forecast>>

CallListTables ==
  \E args \in DirectArgs("list_tables"), remember \in BOOLEAN :
    Called("list_tables", args, list_tables(args, mockTables, mockData),
           remember)

CallGetTableSchema ==
  \E args \in DirectArgs("get_table_schema"), remember \in BOOLEAN :
    Called("get_table_schema", args,
           get_table_schema(args, mockTables, mockData), remember)

CallRunQuery ==
  \E args \in DirectArgs("run_query"), remember \in BOOLEAN :
    Called("run_query", args, run_query(args, mockTables, mockData), remember)

CallDfShape ==
  \E args \in DirectArgs("df_shape"), remember \in BOOLEAN :
    Called("df_shape", args, df_shape(args, mockTables, mockData), remember)

CallDfHead ==
  \E args \in DirectArgs("df_head"), remember \in BOOLEAN :
    Called("df_head", args, df_head(args, mockTables, mockData), remember)

CallDfDescribe ==
  \E args \in DirectArgs("df_describe"), remember \in BOOLEAN :
    Called("df_describe", args, df_describe(args, mockTables, mockData),
           remember)

ToolInit == Init /\ script = "14"

ToolNext ==
  \/ CallListTables
  \/ CallGetTableSchema
  \/ CallRunQuery
  \/ CallDfShape
  \/ CallDfHead
  \/ CallDfDescribe

ToolSpec == ToolInit /\ [][ToolNext]_vars

-----------------------------------------------------------------------------
(* routeResponse called on any response                                    *)

\* the responses routeResponse may be given: every combination of tool
\* calls, content, returnValues and tool/toolInput
RouteResponses ==
  {Response(c, t, r, old[1], old[2]) :
     c \in {"", "texto"},
     t \in {<<>>, <<ToolCall("df_shape", EmptyObj)>>,
            <<ToolCall("list_tables", EmptyObj)>>,
            <<ToolCall("df_describe", StrArg("column", <<"Deck">>))>>,
            <<UnknownCall>>, <<NamelessCall>>,
            <<ToolCall("list_tables", EmptyObj), ToolCall("df_shape", EmptyObj)>>},
     r \in {NoReturnValues, ReturnValues("saida")},
     old \in {<<"", Undef>>, <<"", EmptyObj>>, <<"df_shape", Undef>>,
              <<"df_shape", EmptyObj>>, <<"run_query", EmptyObj>>,
              <<"unknown_tool", EmptyObj>>}}

\* the tools arrays routeResponse is called with
RouteTools == {DfToolNames, SqlToolNames, {"python_repl_ast"}}

RouteResponseCalled ==
  /\ \E resp \in RouteResponses, tools \in RouteTools :
       routed' = [resp |-> resp, tools |-> tools,
                  outcome |-> routeResponse(resp, tools, mockTables, mockData)]
  /\ UNCHANGED <<agentVars, dataVars, directVars>>

RouteInit == Init /\ script = "14"

RouteNext == RouteResponseCalled

RouteSpec == RouteInit /\ [][RouteNext]_vars


-----------------------------------------------------------------------------
(* The mock temperature lookups called directly on any city and unit       *)

\* city strings, as sequences of words
Locals ==
  {<<"Sao", "Paulo">>, <<"SAO", "PAULO">>, <<"sao", "paulo">>,
   <<"Porto", "Alegre">>, <<"porto", "alegre">>,
   <<"Sao", "Paulo", "Porto", "Alegre">>,
   <<"Porto", "Alegre", "Sao", "Paulo">>,
   <<"em", "Porto", "Alegre", "agora">>, <<"Porto", "Sao", "Paulo">>,
   <<"Paulo", "Sao">>, <<"Sao">>, <<"Lisboa">>, <<>>}

\* the second argument: absent or any string
Unidades == {JSUndefined, "celsius", "fahrenheit", "kelvin"}

\* an output computed for another input is forgotten
Kept(local, unidade, out) ==
  IF lookup.local = local /\ lookup.unidade = unidade THEN out ELSE ""

CallGetCurrentTemperature ==
  /\ \E local \in Locals, unidade \in Unidades :
       lookup' = [local |-> local, unidade |-> unidade,
                  out03 |-> getCurrentTemperature(local, unidade),
                  out002 |-> Kept(local, unidade, lookup.out002)]
  /\ UNCHANGED <<agentVars, dataVars, lastCall, lastOut, memo, routed,
                 forecast>>

CallObterTemperaturaAtual ==
  /\ \E local \in Locals, unidade \in Unidades :
       lookup' = [local |-> local, unidade |-> unidade,
                  out03 |-> Kept(local, unidade, lookup.out03),
                  out002 |-> obterTemperaturaAtual(local, unidade)]
  /\ UNCHANGED <<agentVars, dataVars, lastCall, lastOut, memo, routed,
                 forecast>>

LookupInit == Init /\ script = "03"

LookupNext ==
  \/ CallGetCurrentTemperature
  \/ CallObterTemperaturaAtual

LookupSpec == LookupInit /\ [][LookupNext]_vars

-----------------------------------------------------------------------------
(* The closest-hour search of getCurrentTemperature applied to any         *)
(* non-empty hourly forecast                                               *)

\* the longest list of hourly times and the latest time
MaxHours == 3
MaxTime == 3

\* the code after response.status === 200, in tools/weather.ts and 12
\* (text) and in 09 (string); result.hourly.temperature_2m has one
\* temperature per hour, all different; result.hourly.time is any non-empty
\* list of times, in any order
\* (the function keeps nothing between calls: a behaviour handles one
\* response)
WeatherResponseHandled ==
  /\ forecast = NoForecast
  /\ \E time \in UNION {[1..n -> 0..MaxTime] : n \in 1..MaxHours},
        now \in 0..MaxTime :
       LET body == [time |-> time,
                    temperature_2m |-> [i \in 1..Len(time) |-> 10 + i]]
       IN forecast' = [time |-> time,
                       temperature_2m |-> body.temperature_2m,
                       now |-> now,
                       text |-> TemperatureText(body, now),
                       string |-> TemperatureString(body, now)]
  /\ UNCHANGED <<agentVars, dataVars, lastCall, lastOut, memo, routed,
                 lookup>>

ForecastInit == Init /\ script = "09"

ForecastSpec == ForecastInit /\ [][WeatherResponseHandled]_vars

-----------------------------------------------------------------------------
(* Properties of the agent loops (Spec)                                    *)

\* the agent function has returned to main and main has not yet gone on
JustReturned == pc = "idle" /\ agent # ""

\* a tool of runAgent is running
Executing == pc \in {"weather", "wikiSearch", "wikiPage"}

\* C1: whenever the model is invoked after a tool was executed, the input of
\* that invocation contains the observation of every intermediate step taken
\* so far (as the content of one of its messages).
C1_NextInputContainsObservations ==
  (pc = "model" /\ agent # "") =>
    \A i \in 1..Len(intermediateSteps) :
      \E j \in 1..Len(modelInput) :
        \/ modelInput[j].content = intermediateSteps[i].observation
        \/ \E k \in 1..Len(modelInput[j].embedded) :
             modelInput[j].embedded[k].content
               = intermediateSteps[i].observation

\* C2 as stated: the loop returns only on a final response (non-empty
\* content and no tool calls, or returnValues); every response with a valid
\* first tool call causes exactly one tool execution, one appended pair and
\* another model invocation; on return, invocations = executions + 1.
C2_EveryToolCallResponseRunsATool ==
  agent \in Agents =>
    /\ counters.tools = counters.calls
    /\ ~Executing => Len(intermediateSteps) = counters.calls
    /\ pc # "getMessages" => counters.model = counters.calls + 1
    /\ JustReturned =>
         /\ \/ response.content # "" /\ response.tool_calls = <<>>
            \/ response.returnValues.present
         /\ counters.model = counters.tools + 1

\* C2 amended: the loop returns only on a final response; every response
\* with a valid first tool call whose tool is one of the agent's tools and
\* does not throw causes exactly one tool execution, one appended pair and
\* another model invocation; a tool call for an unknown tool executes
\* nothing and a throwing tool appends nothing, and both end the loop with
\* an error; on return, invocations = executions + 1.
C2_LoopCounts ==
  agent \in Agents =>
    /\ counters.tools
         = counters.calls - (IF err.kind = "notfound" THEN 1 ELSE 0)
    /\ Len(intermediateSteps)
         = counters.tools - (IF Executing \/ err.kind = "tool" THEN 1 ELSE 0)
    /\ pc # "getMessages" => counters.model = Len(intermediateSteps) + 1
    /\ err.kind \in {"notfound", "tool"} => pc = "thrown"
    /\ JustReturned =>
         /\ \/ response.content # "" /\ response.tool_calls = <<>>
            \/ response.returnValues.present
         /\ returned # <<>>
         /\ returned[Len(returned)].value
              = (IF response.content # "" /\ response.tool_calls = <<>>
                 THEN response.content ELSE response.returnValues.output)
         /\ counters.model = counters.tools + 1

\* a run returned after two tool executions and three model invocations
C2_Witness ==
  agent \in Agents /\ JustReturned /\ counters.tools = 2 /\ counters.model = 3

\* C4 as stated: every error raised while a script runs is caught exactly
\* once and logged exactly once, and nothing is re-issued after it.
C4_CaughtOnceLoggedOnce ==
  err.kind # "none" =>
    /\ Len(catches) = 1
    /\ Len(errorLog) = 1
    /\ outstanding = 0
    /\ ~ENABLED Next

\* C4 amended: every error reaches the catch of main, which catches it once,
\* logs it once and ends the script with nothing re-issued; on the way an
\* error thrown by a tool is also caught and re-thrown by routeResponse
\* (where the loop calls routeResponse: not in part_001), and
\* getCurrentTemperature, searchWikipedia and python_repl_ast first catch,
\* log and re-throw their own error, so that such an error is caught three
\* times and logged twice.  In part_002 the error is caught and logged once
\* by the example function that made the call, which is not run again, and
\* main goes on.
C4_CaughtByMainOnce ==
  err.kind # "none" =>
    IF script = "002"
    THEN LET idx(name) == CHOOSE i \in 1..7 : Examples("002")[i].agent = name
         IN /\ catches = errorLog
            /\ \A k \in 1..Len(catches) :
                 /\ catches[k] \in Examples002
                 /\ idx(catches[k]) < exIdx
                 /\ k > 1 => idx(catches[k - 1]) < idx(catches[k])
    ELSE
    LET failed == IF response.tool_calls # <<>>
                  THEN response.tool_calls[1].name ELSE response.tool
        own == err.kind = "tool"
               /\ failed \in {"getCurrentTemperature", "searchWikipedia",
                              "python_repl_ast"}
    IN /\ catches = (IF own THEN <<"tool">> ELSE <<>>)
                      \o (IF err.kind = "tool" /\ agent \notin Agents001
                          THEN <<"routeResponse">> ELSE <<>>)
                      \o <<"main">>
       /\ errorLog = (IF own THEN <<"tool">> ELSE <<>>) \o <<"main">>
       /\ mainState = "done"
       /\ outstanding = 0
       /\ ~ENABLED Next

\* a failed weather request: caught by the tool, by routeResponse and by main
C4_Witness ==
  /\ err.kind = "tool"
  /\ response.tool_calls # <<>>
  /\ response.tool_calls[1].name = "getCurrentTemperature"
  /\ catches = <<"tool", "routeResponse", "main">>
  /\ errorLog = <<"tool", "main">>

\* C5: at most one external call (model, weather, Wikipedia search or page,
\* history read or write) is outstanding at any moment, and exactly one
\* while an agent function is running.
C5_OneOutstandingCall ==
  /\ outstanding \in {0, 1}
  /\ outstanding = 1 <=> pc \notin {"idle", "thrown"}

\* the third page request of searchWikipedia is in flight, alone
C5_Witness ==
  pc = "wikiPage" /\ toolState.done = 2 /\ outstanding = 1

C7_ToolResultsSaved ==
  (agent = "runAgent" /\ pc = "model") =>
    \A i \in 1..Len(intermediateSteps) :
      \E j \in 1..Len(transcript[sessionId]) :
        transcript[sessionId][j].content = intermediateSteps[i].observation

\* C8: every model invocation of a runAgent call on a session receives as
\* chat_history exactly the turns saved by the earlier completed runAgent
\* calls on that session, in order, the same at every iteration.
C8_ChatHistoryIsEarlierTurns ==
  (agent = "runAgent" /\ pc = "model") =>
    LET done == SelectSeq(returned, LAMBDA c : c.agent = "runAgent"
                                                /\ c.session = sessionId)
        last == Len(modelInput) - Len(intermediateSteps) - 1
        history == SubSeq(modelInput, 2, last)
    IN /\ Len(history) = 2 * Len(done)
       /\ \A k \in 1..Len(done) :
            /\ history[2 * k - 1] = HumanMessage(done[k].input)
            /\ history[2 * k] = AIMessage(done[k].value)
       /\ modelInput[last + 1] = HumanMessage(input)

\* the second iteration of a runAgent call on a session with an earlier call
C8_Witness ==
  /\ agent = "runAgent"
  /\ pc = "model"
  /\ Len(intermediateSteps) = 1
  /\ \E k \in 1..Len(returned) : returned[k].session = sessionId

-----------------------------------------------------------------------------
(* Termination of the agent loops (LiveSpec)                               *)

\* C3: a running agent loop eventually returns the final response of the
\* model (non-empty content and no tool calls, or returnValues), unless a
\* model call or a tool call failed or the model answered with something
\* that is neither final nor a call of one of the agent's tools; the loop
\* has no other exit.
C3_LoopReturnsFinalResponse ==
  (agent \in Agents /\ pc \notin {"idle", "thrown"}) ~>
    \/ /\ agent \in Agents
       /\ JustReturned
       /\ \/ /\ response.content # ""
             /\ response.tool_calls = <<>>
             /\ returned[Len(returned)].value = response.content
          \/ /\ response.returnValues.present
             /\ ~(response.content # "" /\ response.tool_calls = <<>>)
             /\ returned[Len(returned)].value = response.returnValues.output
    \/ /\ pc = "thrown"
       /\ \/ err.kind \in {"model", "tool", "notfound"}
          \/ /\ err.kind = "invalid"
             /\ ~(response.content # "" /\ response.tool_calls = <<>>)
             /\ ~response.returnValues.present

\* a loop returned the final response after two tool calls
C3_Witness ==
  /\ agent \in Agents
  /\ JustReturned
  /\ Len(intermediateSteps) = 2
  /\ returned[Len(returned)].value = FinalOutput(response)

-----------------------------------------------------------------------------
(* Properties of the mock data tools (ToolSpec)                            *)

\* C9: after any sequence of calls of the six tools, successful or failing,
\* mockTables and mockData equal their initial values, and a call repeated
\* with the same tool and input gives the same output as before.
C9_MockDataNeverMutated ==
  /\ mockTables = InitMockTables
  /\ mockData = InitMockData
  /\ memo.call = lastCall => memo.out = lastOut

\* df_head was called again with the input of an earlier call and gave the
\* same rows
C9_Witness ==
  /\ lastCall.name = "df_head"
  /\ memo.call = lastCall
  /\ memo.out = lastOut
  /\ lastOut.ok

-----------------------------------------------------------------------------
(* Properties of routeResponse (RouteSpec)                                 *)

\* C10: routeResponse takes the first case that applies: a non-empty
\* tool_calls list runs the first tool call; else non-empty content is
\* returned; else returnValues.output is returned; else tool with toolInput
\* runs that tool; else 'Unexpected response format' is thrown.  Running a
\* tool means executing the tool of that name, or throwing when the tools
\* have none of that name.
C10_FirstCaseThatApplies ==
  routed.tools # {} =>
    LET r == routed.resp
        o == routed.outcome
        Runs(name) ==
          IF name \in routed.tools THEN o.ran = name
          ELSE o.kind = "throw" /\ o.ran = "" /\ o.val = "Tool " \o name \o " not found"
        Returns(v) == o.kind = "return" /\ o.ran = "" /\ o.val = v
    IN IF r.tool_calls # <<>> THEN Runs(r.tool_calls[1].name)
       ELSE IF r.content # "" THEN Returns(r.content)
       ELSE IF r.returnValues.present THEN Returns(r.returnValues.output)
       ELSE IF r.tool # "" /\ r.toolInput.def THEN Runs(r.tool)
       ELSE /\ o.kind = "throw"
            /\ o.ran = ""
            /\ o.val = "Unexpected response format"

\* a response with both tool calls and content: the tool ran
C10_Witness ==
  /\ routed.resp.tool_calls # <<>>
  /\ routed.resp.content # ""
  /\ routed.outcome.ran = routed.resp.tool_calls[1].name
  /\ routed.outcome.kind = "return"
  /\ routed.outcome.val # routed.resp.content

-----------------------------------------------------------------------------
(* Properties of the chain of 09_chatmodels_with_tools.ts (Spec)           *)

\* C11: when chain.invoke of 09 returns and the model's response carried a
\* tool call, the tool was executed and the model was invoked again with
\* the tool's result; when it carried no tool call and had content, no tool
\* was executed and the model's text is what is returned.
C11_ChainReinvokesModel ==
  (agent = "chain" /\ JustReturned) =>
    /\ response.tool_calls # <<>> =>
         /\ counters.tools = 1
         /\ counters.model = 2
    /\ (response.tool_calls = <<>> /\ response.content # "") =>
         /\ counters.tools = 0
         /\ counters.model = 1
         /\ returned[Len(returned)].value = response.content

-----------------------------------------------------------------------------
(* Properties of main of 03_adding_external_functions_openai.ts (Spec)     *)

\* C12 as stated: once the first response is there, the second model call
\* has been made if and only if that response contains tool calls; it is
\* made after the function returned, with the messages [user question,
\* assistant message of the first response, tool message with the id of the
\* executed tool call and the function's result]; at most two model calls.
C12_SecondCallIffToolCalls ==
  (agent = "main03" /\ response # NoResponse) =>
    /\ counters.model <= 2
    /\ counters.model = 2 <=>
         (response.tool_calls.present /\ response.tool_calls.list # <<>>)
    /\ counters.model = 2 =>
         /\ counters.tools = 1
         /\ modelInput =
              << [role |-> "user", content |-> input],
                 response,
                 [role |-> "tool",
                  tool_call_id |-> response.tool_calls.list[1].id,
                  content |-> getCurrentTemperature(
                    response.tool_calls.list[1].arguments.local,
                    response.tool_calls.list[1].arguments.unidade)] >>

\* C12 amended: the second model call is made if and only if the first
\* response contains tool calls and the arguments of its first tool call
\* parse as JSON and hold a local; when they do not, main ends with the
\* error caught and no second call; the rest as stated.
C12_SecondCallIffUsableToolCall ==
  (agent = "main03" /\ response # NoResponse) =>
    LET calls == response.tool_calls
        usable == /\ calls.present
                  /\ calls.list # <<>>
                  /\ calls.list[1].arguments.wellFormed
                  /\ calls.list[1].arguments.hasLocal
    IN /\ counters.model <= 2
       /\ counters.model = 2 <=> usable
       /\ (calls.present /\ ~usable) =>
            /\ pc = "thrown"
            /\ err.kind \in {"parse", "type"}
            /\ counters.tools = 0
       /\ counters.model = 2 =>
            /\ counters.tools = 1
            /\ modelInput =
                 << [role |-> "user", content |-> input],
                    response,
                    [role |-> "tool", tool_call_id |-> calls.list[1].id,
                     content |-> getCurrentTemperature(
                       calls.list[1].arguments.local,
                       calls.list[1].arguments.unidade)] >>

\* main of 03 ended after its second model call
C12_Witness ==
  /\ agent = "main03"
  /\ JustReturned
  /\ counters.model = 2
  /\ Len(modelInput) = 3
  /\ modelInput[3].tool_call_id = "call_1"

-----------------------------------------------------------------------------
(* Properties of the mock temperature lookups (LookupSpec)                 *)

\* C13: for every city string, getCurrentTemperature (03) and
\* obterTemperaturaAtual (part_002) give local Sao Paulo and temperatura 32
\* when the lower-cased input contains "sao paulo", otherwise Porto Alegre
\* and 25 when it contains "porto alegre", otherwise the input itself and
\* "unknown"; the unit is the one given, or "celsius" when none is given;
\* the two functions agree.
C13_LookupTable ==
  LET lower == toLowerCase(lookup.local)
      unit == IF lookup.unidade = "undefined" THEN "celsius"
              ELSE lookup.unidade
      expected ==
        IF \E i \in 1..(Len(lower) - 1) :
             lower[i] = "sao" /\ lower[i + 1] = "paulo"
        THEN ToString([local |-> <<"Sao", "Paulo">>, temperatura |-> "32",
                       unidade |-> unit])
        ELSE IF \E i \in 1..(Len(lower) - 1) :
                  lower[i] = "porto" /\ lower[i + 1] = "alegre"
        THEN ToString([local |-> <<"Porto", "Alegre">>, temperatura |-> "25",
                       unidade |-> unit])
        ELSE ToString([local |-> lookup.local, temperatura |-> "unknown",
                       unidade |-> unit])
  IN /\ lookup.out03 # "" => lookup.out03 = expected
     /\ lookup.out002 # "" => lookup.out002 = expected
     /\ (lookup.out03 # "" /\ lookup.out002 # "") =>
          lookup.out03 = lookup.out002

\* both functions were called on a city naming both places, with no unit
C13_Witness ==
  /\ lookup.local = <<"Porto", "Alegre", "Sao", "Paulo">>
  /\ lookup.unidade = "undefined"
  /\ lookup.out03 # ""
  /\ lookup.out03 = lookup.out002

-----------------------------------------------------------------------------
(* Unknown tools in routeResponse (RouteSpec)                              *)

\* C14: when routeResponse takes a tool branch (tool_calls, or the old
\* tool / toolInput format) and the tools given to it have none of the
\* requested name, it throws 'Tool <name> not found' and executes no tool:
\* the mock data are as before the call.
C14_UnknownToolThrows ==
  routed.tools # {} =>
    LET r == routed.resp
        o == routed.outcome
        NotFound(name) ==
          name \notin routed.tools =>
            /\ o.kind = "throw"
            /\ o.val = "Tool " \o name \o " not found"
            /\ o.ran = ""
            /\ o.tables = mockTables
            /\ o.data = mockData
    IN /\ r.tool_calls # <<>> => NotFound(r.tool_calls[1].name)
       /\ (/\ r.tool_calls = <<>> /\ r.content = ""
           /\ ~r.returnValues.present
           /\ r.tool # "" /\ r.toolInput.def) => NotFound(r.tool)

\* an old-format response naming a tool of another agent was routed
C14_Witness ==
  /\ routed.tools = DfToolNames
  /\ routed.resp.tool_calls = <<>>
  /\ routed.resp.tool = "run_query"
  /\ routed.outcome.kind = "throw"
  /\ routed.outcome.val = "Tool run_query not found"

-----------------------------------------------------------------------------
(* Tool errors in the agent loops (Spec)                                   *)

\* C15: in the loops that call routeResponse (all but those of part_001),
\* a step in which a tool's error leaves routeResponse returns no
\* value: the error main catches is 'Error executing tool <name>: <cause>'
\* with the name of the requested tool, no step is appended to the
\* intermediate steps and the model is not invoked again, in that step or
\* after it.
C15_ToolErrorEndsLoop ==
  [][ /\ (/\ pc # "thrown" /\ pc' = "thrown" /\ err'.kind = "tool"
          /\ agent \notin Agents001) =>
           LET name == IF response'.tool_calls # <<>>
                       THEN response'.tool_calls[1].name ELSE response'.tool
           IN /\ \E cause \in {"TypeError", "Table undefined not found",
                               "Table Track not found",
                               "Query not supported",
                               "Column not found in DataFrame",
                               "Request to API failed", "AxiosError",
                               "Wikipedia search failed"} :
                    err'.message =
                      "Error executing tool " \o name \o ": " \o cause
              /\ counters'.tools >= 1
              /\ returned' = returned
              /\ intermediateSteps' = intermediateSteps
              /\ counters'.model = counters.model
      /\ (pc = "thrown" /\ err.kind = "tool") =>
           /\ pc' = "thrown"
           /\ returned' = returned
           /\ intermediateSteps' = intermediateSteps
           /\ counters'.model = counters.model
    ]_vars

\* runToolCallingAgent: the second tool call of the loop threw, after the
\* first one had given a step
C15_Witness ==
  /\ pc = "thrown"
  /\ err.kind = "tool"
  /\ agent = "runToolCallingAgent"
  /\ Len(intermediateSteps) = 1
  /\ counters.model = 2
  /\ counters.tools = 2

-----------------------------------------------------------------------------
(* Invalid tool calls in the agent loops (Spec)                            *)

\* C16: when the chain of an agent loop answers with a response that is not
\* final and whose first tool call is missing (the empty response included)
\* or has no name or no args, the loop throws 'Invalid tool call response'
\* and no tool is executed in that step; when the first tool call names a
\* tool of the agent and its args is the empty object, the tool is executed.
C16_InvalidToolCallThrows ==
  [][ (pc = "model" /\ agent \in Agents /\ err'.kind # "model") =>
        LET r == response'
            final == \/ r.content # "" /\ r.tool_calls = <<>>
                     \/ r.returnValues.present
            missing == r.tool_calls = <<>>
        IN /\ (/\ ~final
               /\ \/ missing
                  \/ r.tool_calls[1].name = ""
                  \/ ~r.tool_calls[1].args.def) =>
                 /\ pc' = "thrown"
                 /\ err' = [kind |-> "invalid",
                            message |-> "Invalid tool call response"]
                 /\ counters'.tools = counters.tools
                 /\ toolState' = toolState
                 /\ intermediateSteps' = intermediateSteps
                 /\ mockTables' = mockTables /\ mockData' = mockData
           /\ (/\ ~final /\ ~missing
               /\ r.tool_calls[1].name \in ToolsOf(agent)
               /\ r.tool_calls[1].args = EmptyObj) =>
                 /\ err'.kind # "invalid"
                 /\ counters'.tools = counters.tools + 1
    ]_vars

\* the loop threw on the empty response after a step whose tool call had
\* the empty object as args
C16_Witness ==
  /\ agent \in Agents
  /\ pc = "thrown"
  /\ err.kind = "invalid"
  /\ response.content = "" /\ response.tool_calls = <<>>
  /\ Len(intermediateSteps) = 1
  /\ intermediateSteps[1].action.toolInput = EmptyObj

-----------------------------------------------------------------------------
(* Responses with several tool calls (Spec)                                *)

-----------------------------------------------------------------------------
(* Errors and the transcript of runAgent (Spec)                            *)

\* C18: a runAgent call that ends with an error (of a model call, the tool
\* lookup, a tool execution or the invalid-tool-call check) leaves every
\* transcript as it was when the call started: the transcript is written
\* only by the two saves that follow a final response, after which the call
\* cannot fail, so that when the error reaches main the transcript of the
\* session is still the chat history read at the start of the call.
C18_ErrorLeavesTranscript ==
  [][ agent' = "runAgent" =>
        /\ pc' = "thrown" =>
             /\ transcript' = transcript
             /\ transcript'[sessionId'] = chatHistory'
             /\ err'.kind \in {"model", "notfound", "tool", "invalid"}
        /\ transcript' # transcript => pc \in {"saveHuman", "saveAI"}
        /\ pc \in {"saveHuman", "saveAI"} => pc' # "thrown"
    ]_vars

\* the second call on a session failed while executing a tool: the
\* transcript holds the turn of the first call and nothing of the second
C18_Witness ==
  /\ agent = "runAgent"
  /\ pc = "thrown"
  /\ err.kind = "tool"
  /\ Len(transcript[sessionId]) = 2
  /\ transcript[sessionId] = chatHistory
  /\ executed # <<>>

-----------------------------------------------------------------------------
(* Isolation of the sessions of runAgent (Spec)                            *)

\* C19: whatever calls are made on the other session in between, a runAgent
\* call on a session changes the transcript of that session alone, and the
\* transcript of the session and the chat_history given to the model are
\* what the completed calls on that session alone give: their inputs and
\* answers, in order.
C19_SessionsIsolated ==
  [][ agent' = "runAgent" =>
        LET own == SelectSeq(returned', LAMBDA c : c.agent = "runAgent"
                                                    /\ c.session = sessionId')
            alone == [i \in 1..(2 * Len(own)) |->
                        IF i % 2 = 1
                        THEN HumanMessage(own[(i + 1) \div 2].input)
                        ELSE AIMessage(own[i \div 2].value)]
        IN /\ \A s \in Sessions \ {sessionId'} : transcript'[s] = transcript[s]
           /\ pc' \notin {"idle", "saveAI"} => transcript'[sessionId'] = alone
           /\ pc' = "model" =>
                /\ chatHistory' = alone
                /\ SubSeq(modelInput', 2, 1 + Len(alone)) = alone
                /\ modelInput'[2 + Len(alone)] = HumanMessage(input')
    ]_vars

\* a call on test-session-1 is at its model call after a call on
\* default-session was completed: it was given an empty chat_history
C19_Witness ==
  /\ agent = "runAgent"
  /\ pc = "model"
  /\ sessionId = "test-session-1"
  /\ transcript["default-session"] # <<>>
  /\ chatHistory = <<>>
  /\ Len(modelInput) = 2

-----------------------------------------------------------------------------
(* The order of the examples of main (Spec)                                *)

\* C20: main starts its examples in the order of its text, one after the
\* end of the other.  In 12, 13, 14 and 09, with one handler around all the
\* examples, an example is started only while no error was raised; an error
\* is logged by main and ends main, with nothing started after it.  In
\* part_002, where each of the seven examples has its own handler, every
\* example ends by returning or by its handler logging the error, then the
\* next one is started, and main is done exactly when all seven have ended.
C20_ExamplesInOrder ==
  [][ LET single == script \in {"09", "12", "13", "14"}
          own == script = "002"
      IN (single \/ own) =>
           /\ exIdx' \in {exIdx, exIdx + 1}
           /\ (pc = "idle" /\ pc' # "idle") =>
                /\ exIdx' = exIdx
                /\ Example(agent', input', sessionId') = Examples(script)[exIdx]
                /\ Len(returned) + (IF own THEN Len(errorLog) ELSE 0)
                     = exIdx - 1
                /\ single => err.kind = "none"
           /\ exIdx' = exIdx + 1 => pc' = "idle"
           /\ single =>
                /\ pc # "thrown"
                /\ err'.kind # "none" =>
                     /\ pc' = "thrown"
                     /\ mainState' = "done"
                     /\ errorLog'[Len(errorLog')] = "main"
                     /\ Len(SelectSeq(errorLog', LAMBDA l : l = "main")) = 1
                     /\ exIdx' = exIdx
                     /\ returned' = returned
           /\ own =>
                /\ mainState' = "done" <=> exIdx' = 8
                /\ pc' # "thrown"
                /\ Len(returned') + Len(errorLog') = exIdx' - 1
    ]_vars

\* part_002: the first example failed, the second returned, the third
\* failed, and the seventh has returned: main is done
C20_Witness ==
  /\ script = "002"
  /\ mainState = "done"
  /\ Len(errorLog) >= 2
  /\ errorLog[1] = "exemploBasico"
  /\ errorLog[2] = "exemploForcandoFuncao"
  /\ returned[1].agent = "exemploComBind"
  /\ returned[Len(returned)].agent = "challenge01Case03"

-----------------------------------------------------------------------------
(* The tool messages of the second request of 03 (Spec)                    *)

\* C21: in the second request of main of 03, every tool call listed in the
\* assistant message that is sent back has a tool message with its
\* tool_call_id among the messages of the request.
C21_EveryToolCallAnswered ==
  (agent = "main03" /\ counters.model = 2) =>
    \A i \in 1..Len(modelInput[2].tool_calls.list) :
      \E j \in 1..Len(modelInput) :
        /\ modelInput[j].role = "tool"
        /\ modelInput[j].tool_call_id = modelInput[2].tool_calls.list[i].id

-----------------------------------------------------------------------------
(* The closest hour of the weather tool (ForecastSpec)                     *)

\* C22: for a non-empty list of hourly times, the weather tool returns the
\* temperature at an index of the list whose time is at the least distance
\* from now, and at the smallest such index.
C22_ClosestHour ==
  forecast.time # <<>> =>
    \E i \in 1..Len(forecast.time) :
      /\ forecast.string = ToString(forecast.temperature_2m[i])
      /\ forecast.text = ToString(forecast.temperature_2m[i]) \o " C"
      /\ \A j \in 1..Len(forecast.time) :
           LET di == IF forecast.time[i] < forecast.now
                     THEN forecast.now - forecast.time[i]
                     ELSE forecast.time[i] - forecast.now
               dj == IF forecast.time[j] < forecast.now
                     THEN forecast.now - forecast.time[j]
                     ELSE forecast.time[j] - forecast.now
           IN /\ di <= dj
              /\ j < i => di < dj

\* two hours are equally close to now, the later one first in the list and
\* after an hour that is further away: the second entry is taken
C22_Witness ==
  /\ forecast.time = <<0, 3, 1>>
  /\ forecast.now = 2
  /\ forecast.string = "12"

-----------------------------------------------------------------------------
(* The page requests and the text of searchWikipedia (Spec)                *)

\* C23: searchWikipedia requests pages for at most the first three search
\* results, the k-th request for the k-th result; its summaries are the
\* 'Title/Summary' entries of the page responses with status 200, in the
\* order of the requests; the text it returns is these entries joined, and
\* 'No results found' exactly when there is none; a search response whose
\* status is not 200 makes it throw 'Wikipedia search failed' with no page
\* request made.
C23_WikipediaPages ==
  toolState.tool = "searchWikipedia" =>
    LET t == toolState
        ok == {k \in 1..Len(t.statuses) : t.statuses[k] = 200}
        returns == /\ pc \notin {"wikiSearch", "wikiPage"}
                   /\ ~(pc = "thrown" /\ err.kind = "tool")
        text == IF agent = "chain" THEN returned[Len(returned)].value
                ELSE intermediateSteps[Len(intermediateSteps)].observation
        prefix == IF agent = "chain" THEN "" ELSE "Informacoes encontradas: "
    IN /\ Len(t.requested) <= 3
       /\ \A k \in 1..Len(t.requested) :
            t.requested[k] = SearchResults(MaxResults)[k]
       /\ Len(t.statuses) <= Len(t.requested)
       /\ Len(t.summaries) = Cardinality(ok)
       /\ \A k \in ok :
            t.summaries[Cardinality({j \in ok : j <= k})] =
              "Title: " \o t.requested[k] \o " Summary: extract of "
                \o t.requested[k]
       /\ t.searchStatus # 200 => t.requested = <<>>
       /\ t.searchStatus \notin {0, 200} =>
            /\ pc = "thrown"
            /\ err = [kind |-> "tool",
                      message |-> "Error executing tool searchWikipedia: "
                                    \o "Wikipedia search failed"]
       /\ returns =>
            /\ t.searchStatus = 200
            /\ Len(t.statuses) = Len(t.requested)
            /\ (text = prefix \o "No results found") <=> (t.summaries = <<>>)
            /\ t.summaries # <<>> => text = prefix \o Join(t.summaries)

\* searchWikipedia returned after three page requests, the second of which
\* was answered with a status other than 200: two entries
C23_Witness ==
  /\ toolState.tool = "searchWikipedia"
  /\ pc \notin {"wikiSearch", "wikiPage", "thrown"}
  /\ toolState.requested = <<"T1", "T2", "T3">>
  /\ toolState.statuses = <<200, 204, 200>>
  /\ Len(toolState.summaries) = 2

-----------------------------------------------------------------------------
(* The lookup table of run_query (ToolSpec)                                *)

\* C24: run_query called with a query returns the Album rows when the
\* lower-cased query contains 'select * from album' (also when it contains
\* 'select * from artist' as well), otherwise the Artist rows when it
\* contains 'select * from artist', and otherwise throws 'Query not
\* supported' and returns no rows.
C24_RunQueryLookup ==
  (lastCall.name = "run_query" /\ lastCall.args.def
     /\ lastCall.args.key = "query") =>
    LET q == lastCall.args.str
        Holds(table) ==
          \E i \in 1..Len(q) :
            /\ i + 3 <= Len(q)
            /\ LowerTok(q[i]) = "select"
            /\ q[i + 1] = "*"
            /\ LowerTok(q[i + 2]) = "from"
            /\ LowerTok(q[i + 3]) = table
    IN IF Holds("album")
       THEN lastOut = [ok |-> TRUE, val |-> ToString(mockTables.Album.data)]
       ELSE IF Holds("artist")
       THEN lastOut = [ok |-> TRUE, val |-> ToString(mockTables.Artist.data)]
       ELSE lastOut = [ok |-> FALSE, val |-> "Query not supported"]

\* a query that holds the Artist query and then the Album query was
\* answered with the Album rows
C24_Witness ==
  /\ lastCall.name = "run_query"
  /\ lastCall.args.def
  /\ lastCall.args.str = <<"select", "*", "from", "artist", "union",
                           "select", "*", "from", "album">>
  /\ lastOut = [ok |-> TRUE, val |-> ToString(InitMockTables.Album.data)]

-----------------------------------------------------------------------------
(* get_table_schema and list_tables (ToolSpec)                             *)

\* C25: get_table_schema agrees with list_tables: list_tables returns the
\* names 'Album' and 'Artist'; get_table_schema called with a table name
\* returns the schema of the table when the name is one of these two,
\* case-sensitively, and throws 'Table <name> not found' for every other
\* name.
C25_SchemaAgreesWithListTables ==
  /\ lastCall.name = "list_tables" =>
       lastOut = [ok |-> TRUE, val |-> ToString({"Album", "Artist"})]
  /\ (lastCall.name = "get_table_schema" /\ lastCall.args.def
        /\ lastCall.args.key = "table") =>
       LET name == lastCall.args.str[1]
       IN IF name \in {"Album", "Artist"}
          THEN lastOut = [ok |-> TRUE,
                          val |-> ToString(mockTables[name].schema)]
          ELSE lastOut = [ok |-> FALSE,
                          val |-> "Table " \o name \o " not found"]

-----------------------------------------------------------------------------
(* The chat history of the agent loops of 13 and 14 (Spec)                 *)

\* C26: in the agent loops of 13 and 14 the chat history is local to one
\* run: it is empty while a model invocation of the run is outstanding and
\* while a tool runs, so the prompt holds nothing between the system message
\* and the input; it holds only the turn of the run itself, the input and
\* then the answer, and only once the run has returned its answer.
C26_ChatHistoryLocal ==
  agent \in {"runToolCallingAgent", "runReActAgent", "runDataFrameAgent",
             "runSQLAgent"} =>
    /\ pc # "idle" => chatHistory = <<>>
    /\ pc = "model" =>
         /\ Cardinality({i \in 1..Len(modelInput) :
                           modelInput[i].role = "human"}) = 1
         /\ \A i \in 1..Len(modelInput) :
              /\ modelInput[i].role = "human" =>
                   modelInput[i].content = input
              /\ modelInput[i].role = "ai" => modelInput[i].content = ""
              /\ modelInput[i].role = "system" => i = 1
         /\ agent # "runReActAgent" =>
              /\ modelInput[2].role = "human"
              /\ Len(modelInput) = 2 + Len(intermediateSteps)
    /\ chatHistory # <<>> =>
         /\ returned # <<>>
         /\ returned[Len(returned)].agent = agent
         /\ returned[Len(returned)].input = input
         /\ Len(chatHistory) = 2
         /\ chatHistory[1].role = "human"
         /\ chatHistory[1].content = input
         /\ chatHistory[2].role = "ai"
         /\ chatHistory[2].content = returned[Len(returned)].value

\* the model is invoked again, after a step, in the run of main that follows
\* a run that returned an answer
C26_Witness ==
  /\ agent = "runReActAgent"
  /\ pc = "model"
  /\ returned # <<>>
  /\ returned[Len(returned)].agent = "runToolCallingAgent"
  /\ chatHistory = <<>>
  /\ intermediateSteps # <<>>

=============================================================================
